---- MODULE Spec2Model ----
(***************************************************************************)
(* A model of transform/main.go of internetarchive/gifcities: the manifest *)
(* line parser (splitWaybackURL, parsePage, parseUse), the aggregation     *)
(* pass (manifest), the enrichment merge (vecmerge) and the reconciliation *)
(* pass (fixmanifest).                                                     *)
(*                                                                         *)
(* A Go string is a sequence of one-character strings, so that splitting,  *)
(* joining and trimming are computed as the code computes them.  A Go map  *)
(* is a function whose DOMAIN is the set of keys present.  A nilable       *)
(* pointer (a Page reference) is a sequence of length 0 (nil) or 1.        *)
(***************************************************************************)
EXTENDS Integers, Sequences, FiniteSets, TLC

VARIABLES
    cmd,          \* os.Args[1]: the subcommand main() dispatches to
    pc,           \* the position of the running pass
    consumed,     \* the manifest lines the scanner has yielded so far
    seen,         \* manifest(): seen, checksum -> Gif
    out,          \* the Gif records written to the pass's output file, in order
    warn,         \* the lines written to stderr / the log, in order
    baseRead,     \* vecmerge(): the gifcities.jsonl lines scanned so far
    gifs,         \* vecmerge(): gifs, checksum -> Gif; extractSparkUnique(): gifs, hash -> soLine
    shard,        \* vecmerge(), extractSparkUnique(): index of the directory entry being read
    vread,        \* vecmerge(), extractSparkUnique(): the <<shard, line>> pairs scanned so far
    sparkRead,    \* fixmanifest(): the unique_from_spark.jsonl lines scanned so far
    heap,         \* fixmanifest(): the *Gif objects allocated, by allocation order
    gifsByTSURL,  \* fixmanifest(): gifsByTSURL, key -> index into heap
    gifsByHash,   \* fixmanifest(): gifsByHash, hash -> index into heap
    parseIn,      \* the fields handed to parseUse
    parseRes,     \* what parseUse did with them
    store,        \* upload(): the bucket of the object store, key -> object
    entries,      \* upload(): the <<entry, outcome of StatObject>> pairs so far
    prevSeen,     \* upload(): prevSeen
    uploads,      \* upload(): uploads
    tagIn,        \* the text handed to extractProp or findImgs
    propIn,       \* the property name handed to extractProp
    scrapeOut     \* what extractProp or findImgs returned

uploadVars == <<store, entries, prevSeen, uploads>>

scrapeVars == <<tagIn, propIn, scrapeOut>>

vars == <<cmd, pc, consumed, seen, out, warn, baseRead, gifs, shard, vread,
          sparkRead, heap, gifsByTSURL, gifsByHash, parseIn, parseRes,
          uploadVars, scrapeVars>>

----------------------------------------------------------------------------
(* Bounds of the model.                                                    *)

MaxLines == 3
MaxBase == 2
MaxShards == 2
MaxVecLines == 3
MaxSpark == 3
MaxFixLines == 2
MaxFixTotal == 4
MaxEntries == 3
MaxPropPieces == 5
MaxTagPieces == 4
MaxBulkLines == 3

----------------------------------------------------------------------------
(* Go's strings package, on sequences of characters.                       *)

EmptyMap == [k \in {} |-> 0]

MapPut(m, k, v) == [x \in (DOMAIN m) \cup {k} |-> IF x = k THEN v ELSE m[x]]

Digits == {"0", "1", "2", "3", "4", "5", "6", "7", "8", "9"}

HexDigits == Digits \cup {"a", "b", "c", "d", "e", "f"}

Letters == {"a", "b", "c", "d", "e", "f", "g", "h", "i", "j", "k", "l", "m", "n", "o",
            "p", "q", "r", "s", "t", "u", "v", "w", "x", "y", "z", "A", "B", "C", "D"}

\* strings.Index(s, c) for a one-byte c, 1-based; 0 when c does not occur.
Index(s, c) ==
    IF \E i \in 1..Len(s) : s[i] = c
    THEN CHOOSE i \in 1..Len(s) : s[i] = c /\ \A j \in 1..(i - 1) : s[j] # c
    ELSE 0

\* strings.SplitN(s, c, 2): at most two substrings, cut at the first c.
SplitN2(s, c) ==
    LET i == Index(s, c)
    IN  IF i = 0 THEN <<s>>
        ELSE <<SubSeq(s, 1, i - 1), SubSeq(s, i + 1, Len(s))>>

\* strings.Split(s, c): every substring between occurrences of c.
RECURSIVE Split(_, _)
Split(s, c) ==
    LET i == Index(s, c)
    IN  IF i = 0 THEN <<s>>
        ELSE <<SubSeq(s, 1, i - 1)>> \o Split(SubSeq(s, i + 1, Len(s)), c)

\* strings.Join(parts, sep)
RECURSIVE Join(_, _)
Join(parts, sep) ==
    IF Len(parts) = 0 THEN <<>>
    ELSE IF Len(parts) = 1 THEN parts[1]
    ELSE parts[1] \o sep \o Join(Tail(parts), sep)

HasPrefix(s, p) == Len(s) >= Len(p) /\ SubSeq(s, 1, Len(p)) = p

HasSuffix(s, p) == Len(s) >= Len(p) /\ SubSeq(s, Len(s) - Len(p) + 1, Len(s)) = p

TrimSuffix(s, p) == IF HasSuffix(s, p) THEN SubSeq(s, 1, Len(s) - Len(p)) ELSE s

\* strings.TrimSpace(s); the space is the only white-space character of the model.
RECURSIVE TrimSpace(_)
TrimSpace(s) ==
    IF Len(s) = 0 THEN s
    ELSE IF s[1] = " " THEN TrimSpace(Tail(s))
    ELSE IF s[Len(s)] = " " THEN TrimSpace(SubSeq(s, 1, Len(s) - 1))
    ELSE s

----------------------------------------------------------------------------
(* strconv.ParseInt(s, 10, 32)                                             *)

DigitVal(c) == CHOOSE n \in 0..9 : <<"0", "1", "2", "3", "4", "5", "6", "7", "8", "9">>[n + 1] = c

\* The magnitude of a digit string, as ParseUint accumulates it: -1 stands for
\* exactly 2^31 and -2 for anything larger (the accumulator never exceeds int32).
MagStep(n, d) ==
    IF n < 0 THEN -2
    ELSE IF n > 214748364 THEN -2
    ELSE IF n = 214748364 THEN (IF d <= 7 THEN 10 * n + d ELSE IF d = 8 THEN -1 ELSE -2)
    ELSE 10 * n + d

RECURSIVE Magnitude(_)
Magnitude(s) ==
    IF Len(s) = 0 THEN 0
    ELSE MagStep(Magnitude(SubSeq(s, 1, Len(s) - 1)), DigitVal(s[Len(s)]))

\* The digits of s after an optional sign.
Unsigned(s) == IF Len(s) > 0 /\ s[1] \in {"+", "-"} THEN Tail(s) ELSE s

Negative(s) == Len(s) > 0 /\ s[1] = "-"

\* err != nil: a syntax error (empty, or a non-digit) or a value outside int32.
ParseIntErr(s) ==
    \/ Len(Unsigned(s)) = 0
    \/ \E i \in 1..Len(Unsigned(s)) : Unsigned(s)[i] \notin Digits
    \/ Magnitude(Unsigned(s)) = -2
    \/ Magnitude(Unsigned(s)) = -1 /\ ~Negative(s)

\* The value of a base-10 literal (only used where ParseIntErr is FALSE).
ParseIntVal(s) ==
    LET m == Magnitude(Unsigned(s))
    IN  IF ~Negative(s) THEN m
        ELSE IF m = -1 THEN (0 - 2147483647) - 1
        ELSE 0 - m

----------------------------------------------------------------------------
(* net/url.Parse(u), as far as parseUse reads it: whether it fails and the *)
(* Path of the result.  The characters '?', '#', '@', '[' and control      *)
(* bytes are not in the model's alphabet, and an authority is letters,     *)
(* digits and dots only.                                                   *)

\* url.getScheme: <<kind, scheme, rest>>; kind "err" is "missing protocol scheme".
RECURSIVE getScheme(_, _)
getScheme(u, i) ==
    IF i > Len(u) THEN <<"ok", <<>>, u>>
    ELSE IF u[i] \in Letters THEN getScheme(u, i + 1)
    ELSE IF u[i] \in Digits \cup {"+", "-", "."}
         THEN IF i = 1 THEN <<"ok", <<>>, u>> ELSE getScheme(u, i + 1)
    ELSE IF u[i] = ":"
         THEN IF i = 1 THEN <<"err", <<>>, <<>>>>
              ELSE <<"ok", SubSeq(u, 1, i - 1), SubSeq(u, i + 1, Len(u))>>
    ELSE <<"ok", <<>>, u>>

\* url.unescape fails on a '%' that is not followed by two hexadecimal digits.
BadEscape(s) ==
    \E i \in 1..Len(s) :
        /\ s[i] = "%"
        /\ ~(i + 2 <= Len(s) /\ s[i + 1] \in HexDigits /\ s[i + 2] \in HexDigits)

\* url.unescape: "%xy" becomes the one byte it encodes, written here "%xy".
RECURSIVE unescape(_)
unescape(s) ==
    IF Len(s) = 0 THEN s
    ELSE IF s[1] = "%" /\ Len(s) >= 3
         THEN <<s[1] \o s[2] \o s[3]>> \o unescape(SubSeq(s, 4, Len(s)))
    ELSE <<s[1]>> \o unescape(Tail(s))

\* The part of rest that follows "//authority".
AfterAuthority(rest) ==
    LET a == SubSeq(rest, 3, Len(rest))
        i == Index(a, "/")
    IN  IF i = 0 THEN <<>> ELSE SubSeq(a, i, Len(a))

\* The authority of "//authority/...".
Authority(rest) ==
    LET a == SubSeq(rest, 3, Len(rest))
        i == Index(a, "/")
    IN  IF i = 0 THEN a ELSE SubSeq(a, 1, i - 1)

\* url.Parse(u): [err |-> whether it fails, Path |-> URL.Path].
urlParse(u) ==
    LET gs == getScheme(u, 1)
        scheme == gs[2]
        rest == gs[3]
        slash == HasPrefix(rest, <<"/">>)
        hasAuth == HasPrefix(rest, <<"/", "/">>)
                    /\ (Len(scheme) > 0 \/ ~HasPrefix(rest, <<"/", "/", "/">>))
        p == IF hasAuth THEN AfterAuthority(rest) ELSE rest
    IN  IF gs[1] = "err" THEN [err |-> TRUE, Path |-> <<>>]
        ELSE IF ~slash /\ Len(scheme) > 0 THEN [err |-> FALSE, Path |-> <<>>]
        ELSE IF ~slash /\ Index(SplitN2(rest, "/")[1], ":") # 0 THEN [err |-> TRUE, Path |-> <<>>]
        ELSE IF hasAuth /\ Index(Authority(rest), "%") # 0 THEN [err |-> TRUE, Path |-> <<>>]
        ELSE IF BadEscape(p) THEN [err |-> TRUE, Path |-> <<>>]
        ELSE [err |-> FALSE, Path |-> unescape(p)]

----------------------------------------------------------------------------
(* The manifest line parser.                                               *)

\* strings.SplitN(u, "/", 2) has no element [1] when u holds no '/':
\* the index expression split[1] panics.
splitPanics(u) == Len(SplitN2(u, "/")) < 2

\* strings.LastIndex(s, c), 1-based; 0 when c does not occur.
LastIndex(s, c) ==
    IF \E i \in 1..Len(s) : s[i] = c
    THEN CHOOSE i \in 1..Len(s) : s[i] = c /\ \A j \in (i + 1)..Len(s) : s[j] # c
    ELSE 0

\* A variant of splitWaybackURL that cuts at the last '/' instead of the first.
splitWaybackURL_LastSlash(u) ==
    <<SubSeq(u, 1, LastIndex(u, "/") - 1), SubSeq(u, LastIndex(u, "/") + 1, Len(u))>>

\* splitWaybackURL(u) = <<timestamp, url>>, where it does not panic.
splitWaybackURL(u) == <<SplitN2(u, "/")[1], SplitN2(u, "/")[2]>>

\* parsePage(p): the *Page built from "timestamp/url".
parsePage(p) == [Timestamp |-> splitWaybackURL(p)[1], URL |-> splitWaybackURL(p)[2]]

Sentinel == <<"-", "/", "-">>

GifSuffix == <<".", "g", "i", "f">>

\* parseUse(fields): kind "ok" with the Use, "error" for a returned error
\* (the failing text in what), or "panic" for an index out of range.
parseUse(fields) ==
    LET u == splitWaybackURL(fields[1])[2]
        timestamp == splitWaybackURL(fields[1])[1]
        pu == urlParse(u)
        sp == Split(u, "/")
        filename == Split(sp[Len(sp)], ".")[1]
        pathText == Join(Split(TrimSuffix(pu.Path, filename \o GifSuffix), "/"), <<" ">>)
    IN  IF splitPanics(fields[1]) THEN [kind |-> "panic", use |-> <<>>, what |-> <<>>]
        ELSE IF pu.err THEN [kind |-> "error", use |-> <<>>, what |-> u]
        ELSE IF Len(fields) < 5 THEN [kind |-> "panic", use |-> <<>>, what |-> <<>>]
        ELSE IF fields[5] # Sentinel /\ splitPanics(fields[5])
             THEN [kind |-> "panic", use |-> <<>>, what |-> <<>>]
        ELSE [kind |-> "ok",
              what |-> <<>>,
              use |-> <<[URL |-> u,
                         Timestamp |-> timestamp,
                         Filename |-> filename,
                         Path |-> TrimSpace(pathText),
                         Page |-> IF fields[5] # Sentinel THEN <<parsePage(fields[5])>> ELSE <<>>,
                         Alt |-> <<>>]>>]

----------------------------------------------------------------------------
(* The texts the inputs of the model are made of.                          *)

TS1 == <<"1">>

TS2 == <<"2">>

UrlA == <<"h", "/", "a", ".", "g", "i", "f">>

UrlB == <<"s", ":", "/", "/", "h", "/", "d", "/", "b", ".", "g", "i", "f">>

UrlBadEscape == <<"h", "/", "%">>

UrlNoScheme == <<":", "x">>

\* "timestamp/url"
Wayback(ts, u) == ts \o <<"/">> \o u

Use1 == Wayback(TS1, UrlA)

Use2 == Wayback(TS2, UrlB)

Page3 == <<"3", "/", "p", "/", "q">>

PageNoTimestamp == <<"/", "p">>

PageNearSentinel == <<"-", "/", "-", "/">>

NoSlash == <<"x">>

HashA == <<"A">>

HashB == <<"B">>

HashC == <<"C">>

Overflow32 == <<"2", "1", "4", "7", "4", "8", "3", "6", "4", "8">>

\* One manifest line: its fields joined by single spaces.
MkLine(fs) == Join(fs, <<" ">>)

----------------------------------------------------------------------------
(* parseUse as a pure function of one line's fields.                       *)

ParseUseFields == {Use1, Use2, Wayback(TS1, UrlBadEscape), Wayback(TS2, UrlNoScheme), NoSlash, <<>>}

ParsePageFields == {Sentinel, Page3, PageNoTimestamp, PageNearSentinel, NoSlash, Use2}

ParseLines ==
    {MkLine(<<u, c, <<"7">>, <<"9">>, p>>) :
        u \in ParseUseFields, c \in {HashA, HashB}, p \in ParsePageFields}
    \cup {MkLine(SubSeq(<<Use1, HashA, <<"7">>, <<"9">>, Page3, <<"z">>>>, 1, n)) : n \in 1..6}
    \cup {MkLine(<<Wayback(TS1, UrlBadEscape), HashA>>)}

InitIdle ==
    /\ consumed = <<>>
    /\ seen = EmptyMap
    /\ out = <<>>
    /\ warn = <<>>
    /\ baseRead = <<>>
    /\ gifs = EmptyMap
    /\ shard = 0
    /\ vread = <<>>
    /\ sparkRead = <<>>
    /\ heap = <<>>
    /\ gifsByTSURL = EmptyMap
    /\ gifsByHash = EmptyMap
    /\ store = EmptyMap
    /\ entries = <<>>
    /\ prevSeen = 0
    /\ uploads = 0
    /\ tagIn = <<>>
    /\ propIn = <<>>
    /\ scrapeOut = <<>>

InitParse ==
    /\ cmd = "parseUse"
    /\ pc = "call"
    /\ \E line \in ParseLines : parseIn = Split(line, " ")
    /\ parseRes = [kind |-> "none", use |-> <<>>, what |-> <<>>]
    /\ InitIdle

\* One call of parseUse on the fields of a line.
ParseUseCall ==
    /\ cmd = "parseUse"
    /\ pc = "call"
    /\ parseRes' = parseUse(parseIn)
    /\ pc' = "returned"
    /\ UNCHANGED <<uploadVars, scrapeVars, cmd, consumed, seen, out, warn, baseRead, gifs, shard, vread,
                   sparkRead, heap, gifsByTSURL, gifsByHash, parseIn>>

NextParse == ParseUseCall

SpecParse == InitParse /\ [][NextParse]_vars

----------------------------------------------------------------------------
(* The aggregation pass: manifest().                                       *)

Checksums == {HashA, HashB}

\* The well-formed lines: two uses, two checksums, two width/height pairs.
GoodLines ==
    {MkLine(<<up[1], c, d[1], d[2], up[2]>>) :
        up \in {<<Use1, Page3>>, <<Use2, Sentinel>>},
        c \in Checksums,
        d \in {<<<<"7">>, <<"7">>>>, <<<<"9">>, <<"8">>>>}}

\* Lines with one defect each.
DefectLines ==
    {MkLine(<<Use1, c, d[1], d[2], Sentinel>>) :
        c \in Checksums,
        d \in {<<<<"w">>, <<"7">>>>, <<<<"7">>, <<"w">>>>, <<Overflow32, <<"7">>>>}}
    \cup {MkLine(<<NoSlash, HashA, <<"7">>, <<"7">>, Sentinel>>),
          MkLine(<<Wayback(TS1, UrlBadEscape), HashA, <<"7">>, <<"7">>, Sentinel>>),
          MkLine(<<Use1, HashA, <<"7">>, <<"7">>, NoSlash>>),
          MkLine(<<Use1, HashA, <<"7">>, <<"7">>>>),
          MkLine(<<Use1, HashA, <<"7">>>>),
          MkLine(<<Use1, HashA>>),
          MkLine(<<Use1>>)}

ManifestLines == GoodLines \cup DefectLines

\* The Gif literal of manifest(): the fields it does not name are Go's zero values.
NewGif(checksum, width, height) ==
    [Checksum |-> checksum, Terms |-> <<>>, Uses |-> <<>>, UseCount |-> 0,
     Width |-> width, Height |-> height, Vecs |-> <<>>, MNSFW |-> 0,
     KNSFW |-> FALSE, Mspec |-> <<>>]

\* A variant of lookupOrCreate that takes the width and height of every line,
\* also for a checksum already seen.
lookupOrCreate_Overwrite(sn, fields) ==
    IF Len(fields) < 3 THEN [kind |-> "panic", gif |-> <<>>]
    ELSE IF ParseIntErr(fields[3]) THEN [kind |-> "error", gif |-> <<>>]
    ELSE IF Len(fields) < 4 THEN [kind |-> "panic", gif |-> <<>>]
    ELSE IF ParseIntErr(fields[4]) THEN [kind |-> "error", gif |-> <<>>]
    ELSE IF fields[2] \in DOMAIN sn
         THEN [kind |-> "ok",
               gif |-> <<[sn[fields[2]] EXCEPT !.Width = ParseIntVal(fields[3]),
                                              !.Height = ParseIntVal(fields[4])]>>]
    ELSE [kind |-> "ok",
          gif |-> <<NewGif(fields[2], ParseIntVal(fields[3]), ParseIntVal(fields[4]))>>]

\* Lines 131-148: the record a line works on: the seen one, or a new one from the
\* line's width and height.  kind "error" is a returned error, "panic" an index
\* out of range on fields.
lookupOrCreate(sn, fields) ==
    IF fields[2] \in DOMAIN sn THEN [kind |-> "ok", gif |-> <<sn[fields[2]]>>]
    ELSE IF Len(fields) < 3 THEN [kind |-> "panic", gif |-> <<>>]
    ELSE IF ParseIntErr(fields[3]) THEN [kind |-> "error", gif |-> <<>>]
    ELSE IF Len(fields) < 4 THEN [kind |-> "panic", gif |-> <<>>]
    ELSE IF ParseIntErr(fields[4]) THEN [kind |-> "error", gif |-> <<>>]
    ELSE [kind |-> "ok",
          gif |-> <<NewGif(fields[2], ParseIntVal(fields[3]), ParseIntVal(fields[4]))>>]

\* A variant of addUse that stores the record under the line's use field.
addUse_KeyedByUse(sn, gif, fields) ==
    LET r == parseUse(fields)
    IN  IF r.kind # "ok" THEN [kind |-> r.kind, seen |-> sn]
        ELSE [kind |-> "ok",
              seen |-> MapPut(sn, fields[1],
                              [gif EXCEPT !.UseCount = @ + 1, !.Uses = Append(@, r.use[1])])]

\* A variant of addUse that appends the use without counting it.
addUse_NoCount(sn, gif, fields) ==
    LET r == parseUse(fields)
    IN  IF r.kind # "ok" THEN [kind |-> r.kind, seen |-> sn]
        ELSE [kind |-> "ok",
              seen |-> MapPut(sn, fields[2], [gif EXCEPT !.Uses = Append(@, r.use[1])])]

\* A variant of addUse that puts the new use in front of the earlier ones.
addUse_Prepend(sn, gif, fields) ==
    LET r == parseUse(fields)
    IN  IF r.kind # "ok" THEN [kind |-> r.kind, seen |-> sn]
        ELSE [kind |-> "ok",
              seen |-> MapPut(sn, fields[2],
                              [gif EXCEPT !.UseCount = @ + 1, !.Uses = <<r.use[1]>> \o @])]

\* Lines 150-158: count the use, parse it, append it, store the record.
addUse(sn, gif, fields) ==
    LET r == parseUse(fields)
    IN  IF r.kind # "ok" THEN [kind |-> r.kind, seen |-> sn]
        ELSE [kind |-> "ok",
              seen |-> MapPut(sn, fields[2],
                              [gif EXCEPT !.UseCount = @ + 1, !.Uses = Append(@, r.use[1])])]

\* One iteration of the scan loop of manifest() on one line (lines 127-158).
manifestLine(sn, line) ==
    LET fields == Split(line, " ")
    IN  IF Len(fields) < 2 THEN [kind |-> "panic", seen |-> sn]
        ELSE LET g == lookupOrCreate(sn, fields)
             IN  IF g.kind # "ok" THEN [kind |-> g.kind, seen |-> sn]
                 ELSE addUse(sn, g.gif[1], fields)

\* Every order in which a range over a map with these keys can visit them.
Orders(keys) ==
    {f \in [1..Cardinality(keys) -> keys] : \A i, j \in 1..Cardinality(keys) : f[i] = f[j] => i = j}

\* Lines 169-176: one output line per entry of seen, in map iteration order.
emitSeen(sn, order) == [i \in 1..Len(order) |-> sn[order[i]]]

InitManifestVars ==
    /\ pc = "scan"
    /\ parseIn = <<>>
    /\ parseRes = [kind |-> "none", use |-> <<>>, what |-> <<>>]
    /\ InitIdle

InitManifest == cmd = "manifest" /\ InitManifestVars

\* s.Scan() yields one more line and the loop body runs on it.
ManifestScanLine ==
    /\ cmd = "manifest"
    /\ pc = "scan"
    /\ Len(consumed) < MaxLines
    /\ \E line \in ManifestLines :
        LET r == manifestLine(seen, line)
        IN  /\ consumed' = Append(consumed, line)
            /\ seen' = r.seen
            /\ pc' = IF r.kind = "ok" THEN "scan" ELSE r.kind
    /\ UNCHANGED <<uploadVars, scrapeVars, cmd, out, warn, baseRead, gifs, shard, vread, sparkRead, heap,
                   gifsByTSURL, gifsByHash, parseIn, parseRes>>

\* s.Scan() stops on a read error: s.Err() is returned, nothing is written.
ManifestScanFails ==
    /\ cmd = "manifest"
    /\ pc = "scan"
    /\ pc' = "error"
    /\ UNCHANGED <<uploadVars, scrapeVars, cmd, consumed, seen, out, warn, baseRead, gifs, shard, vread, sparkRead,
                   heap, gifsByTSURL, gifsByHash, parseIn, parseRes>>

\* s.Scan() stops at the end of the file: every record of seen is written.
ManifestEmit ==
    /\ cmd = "manifest"
    /\ pc = "scan"
    /\ \E order \in Orders(DOMAIN seen) : out' = emitSeen(seen, order)
    /\ pc' = "done"
    /\ UNCHANGED <<uploadVars, scrapeVars, cmd, consumed, seen, warn, baseRead, gifs, shard, vread, sparkRead,
                   heap, gifsByTSURL, gifsByHash, parseIn, parseRes>>

NextManifest == ManifestScanLine \/ ManifestScanFails \/ ManifestEmit

SpecManifest == InitManifest /\ [][NextManifest]_vars

----------------------------------------------------------------------------
(* The enrichment merge: vecmerge().  A line of a JSON-lines file is       *)
(* either text json.Unmarshal rejects or the value it decodes to.          *)

GoodLine1 == MkLine(<<Use1, HashA, <<"7">>, <<"7">>, Page3>>)

GoodLine2 == MkLine(<<Use2, HashA, <<"9">>, <<"8">>, Sentinel>>)

GoodLine3 == MkLine(<<Use2, HashB, <<"9">>, <<"8">>, Sentinel>>)

\* gifcities.jsonl lines: two records as manifest() writes them, one record for
\* the same checksum with terms, flag, score and model id set, and one line
\* that is not JSON.
BaseLines ==
    {[valid |-> TRUE, gif |-> <<manifestLine(EmptyMap, GoodLine1).seen[HashA]>>],
     [valid |-> TRUE, gif |-> <<manifestLine(EmptyMap, GoodLine3).seen[HashB]>>],
     [valid |-> TRUE,
      gif |-> <<[manifestLine(manifestLine(EmptyMap, GoodLine2).seen, GoodLine1).seen[HashA]
                    EXCEPT !.Terms = <<"t">>, !.KNSFW = TRUE, !.MNSFW = 9,
                           !.Mspec = <<"m", "0">>]>>],
     [valid |-> FALSE, gif |-> <<>>]}

\* Lines of an embeddings shard, decoded into vecLine (lines 681-687).
VecLines ==
    {[valid |-> TRUE,
      rec |-> <<[Hash |-> HashA, MNSFW |-> 1, Mspec |-> <<"m", "1">>, Embedding |-> <<1, 2>>]>>],
     [valid |-> TRUE,
      rec |-> <<[Hash |-> HashA, MNSFW |-> 2, Mspec |-> <<"m", "2">>, Embedding |-> <<3>>]>>],
     [valid |-> TRUE,
      rec |-> <<[Hash |-> HashC, MNSFW |-> 3, Mspec |-> <<"m", "3">>, Embedding |-> <<4>>]>>],
     [valid |-> FALSE, rec |-> <<>>]}

\* Line 702: gifs[gif.Checksum] = &gif
loadGif(gs, gif) == MapPut(gs, gif.Checksum, gif)

\* A variant of mergeVec that creates a record for a checksum it does not find.
mergeVec_CreateMissing(gs, vl) ==
    IF vl.Hash \notin DOMAIN gs
    THEN MapPut(gs, vl.Hash,
                [NewGif(vl.Hash, 0, 0) EXCEPT !.Vecs = <<[Vector |-> vl.Embedding]>>,
                                              !.MNSFW = vl.MNSFW, !.Mspec = vl.Mspec])
    ELSE [gs EXCEPT ![vl.Hash] = [@ EXCEPT !.Vecs = Append(@, [Vector |-> vl.Embedding]),
                                           !.MNSFW = vl.MNSFW,
                                           !.Mspec = vl.Mspec]]

\* A variant of mergeVec that keeps the first score and model id it stored.
mergeVec_FirstWins(gs, vl) ==
    IF vl.Hash \notin DOMAIN gs THEN gs
    ELSE [gs EXCEPT ![vl.Hash] =
            [@ EXCEPT !.Vecs = Append(@, [Vector |-> vl.Embedding]),
                      !.MNSFW = IF gs[vl.Hash].Mspec = <<>> THEN vl.MNSFW ELSE @,
                      !.Mspec = IF gs[vl.Hash].Mspec = <<>> THEN vl.Mspec ELSE @]]

\* A variant of mergeVec that replaces the vectors instead of appending.
mergeVec_ReplaceVecs(gs, vl) ==
    IF vl.Hash \notin DOMAIN gs THEN gs
    ELSE [gs EXCEPT ![vl.Hash] = [@ EXCEPT !.Vecs = <<[Vector |-> vl.Embedding]>>,
                                           !.MNSFW = vl.MNSFW,
                                           !.Mspec = vl.Mspec]]

\* A variant of mergeVec that also marks the record as checked for NSFW.
mergeVec_MarksKnown(gs, vl) ==
    IF vl.Hash \notin DOMAIN gs THEN gs
    ELSE [gs EXCEPT ![vl.Hash] = [@ EXCEPT !.Vecs = Append(@, [Vector |-> vl.Embedding]),
                                           !.MNSFW = vl.MNSFW,
                                           !.Mspec = vl.Mspec,
                                           !.KNSFW = TRUE]]

\* Lines 739-749: the effect of one decoded enrichment record on gifs.
mergeVec(gs, vl) ==
    IF vl.Hash \notin DOMAIN gs THEN gs
    ELSE [gs EXCEPT ![vl.Hash] = [@ EXCEPT !.Vecs = Append(@, [Vector |-> vl.Embedding]),
                                           !.MNSFW = vl.MNSFW,
                                           !.Mspec = vl.Mspec]]

\* Lines 740-743: the warning written to stderr names the checksum not found.
warnVec(w, gs, vl) == IF vl.Hash \notin DOMAIN gs THEN Append(w, vl.Hash) ELSE w

InitVecmerge ==
    /\ cmd = "vecmerge"
    /\ pc = "load"
    /\ parseIn = <<>>
    /\ parseRes = [kind |-> "none", use |-> <<>>, what |-> <<>>]
    /\ InitIdle

\* Lines 697-703: one line of gifcities.jsonl is decoded and stored, or the
\* decoding error is returned.
VecLoadLine ==
    /\ cmd = "vecmerge"
    /\ pc = "load"
    /\ Len(baseRead) < MaxBase
    /\ \E line \in BaseLines :
        /\ baseRead' = Append(baseRead, line)
        /\ gifs' = IF line.valid THEN loadGif(gifs, line.gif[1]) ELSE gifs
        /\ pc' = IF line.valid THEN "load" ELSE "error"
    /\ UNCHANGED <<uploadVars, scrapeVars, cmd, consumed, seen, out, warn, shard, vread, sparkRead, heap,
                   gifsByTSURL, gifsByHash, parseIn, parseRes>>

\* Lines 704-717: the base file ends; the shard directory is listed and the
\* output file created.
VecLoadEnd ==
    /\ cmd = "vecmerge"
    /\ pc = "load"
    /\ pc' = "entries"
    /\ UNCHANGED <<uploadVars, scrapeVars, cmd, consumed, seen, out, warn, baseRead, gifs, shard, vread, sparkRead,
                   heap, gifsByTSURL, gifsByHash, parseIn, parseRes>>

\* Lines 719-733: the next directory entry is opened as a gzip stream.
VecOpenShard ==
    /\ cmd = "vecmerge"
    /\ pc = "entries"
    /\ shard < MaxShards
    /\ shard' = shard + 1
    /\ pc' = "lines"
    /\ UNCHANGED <<uploadVars, scrapeVars, cmd, consumed, seen, out, warn, baseRead, gifs, vread, sparkRead,
                   heap, gifsByTSURL, gifsByHash, parseIn, parseRes>>

\* Lines 720-728: the next directory entry cannot be opened or is no gzip file.
VecOpenFails ==
    /\ cmd = "vecmerge"
    /\ pc = "entries"
    /\ shard < MaxShards
    /\ shard' = shard + 1
    /\ pc' = "error"
    /\ UNCHANGED <<uploadVars, scrapeVars, cmd, consumed, seen, out, warn, baseRead, gifs, vread, sparkRead,
                   heap, gifsByTSURL, gifsByHash, parseIn, parseRes>>

\* Lines 734-750: one line of the current shard.
VecLine ==
    /\ cmd = "vecmerge"
    /\ pc = "lines"
    /\ Len(vread) < MaxVecLines
    /\ \E line \in VecLines :
        /\ vread' = Append(vread, <<shard, line>>)
        /\ gifs' = IF line.valid THEN mergeVec(gifs, line.rec[1]) ELSE gifs
        /\ warn' = IF line.valid THEN warnVec(warn, gifs, line.rec[1]) ELSE warn
        /\ pc' = IF line.valid THEN "lines" ELSE "error"
    /\ UNCHANGED <<uploadVars, scrapeVars, cmd, consumed, seen, out, baseRead, shard, sparkRead, heap,
                   gifsByTSURL, gifsByHash, parseIn, parseRes>>

\* Lines 751-753: the current shard ends.
VecShardEnd ==
    /\ cmd = "vecmerge"
    /\ pc = "lines"
    /\ pc' = "entries"
    /\ UNCHANGED <<uploadVars, scrapeVars, cmd, consumed, seen, out, warn, baseRead, gifs, shard, vread, sparkRead,
                   heap, gifsByTSURL, gifsByHash, parseIn, parseRes>>

\* Lines 756-765: no entry is left; every record of gifs is written.
VecEmit ==
    /\ cmd = "vecmerge"
    /\ pc = "entries"
    /\ \E order \in Orders(DOMAIN gifs) : out' = emitSeen(gifs, order)
    /\ pc' = "done"
    /\ UNCHANGED <<uploadVars, scrapeVars, cmd, consumed, seen, warn, baseRead, gifs, shard, vread, sparkRead,
                   heap, gifsByTSURL, gifsByHash, parseIn, parseRes>>

NextVecmerge ==
    VecLoadLine \/ VecLoadEnd \/ VecOpenShard \/ VecOpenFails \/ VecLine \/ VecShardEnd \/ VecEmit

SpecVecmerge == InitVecmerge /\ [][NextVecmerge]_vars

----------------------------------------------------------------------------
(* The reconciliation pass: fixmanifest().  The two indices hold pointers  *)
(* to shared Gif objects: heap is the sequence of the objects allocated    *)
(* and an index maps a key to a position in heap.                          *)

\* unique_from_spark.jsonl lines decoded into soLine (lines 358-363), and one
\* line that is not JSON.
SparkLines ==
    {[valid |-> TRUE, sol |-> <<[Hash |-> h, TS |-> k[1], URL |-> k[2]]>>] :
        h \in {HashA, HashB}, k \in {<<TS1, UrlA>>, <<TS2, UrlB>>}}
    \cup {[valid |-> FALSE, sol |-> <<>>]}

\* The manifest lines of the reconciliation runs.
FixLines ==
    GoodLines
    \cup {MkLine(<<Use1, HashA, <<"w">>, <<"7">>, Sentinel>>),
          MkLine(<<NoSlash, HashA, <<"7">>, <<"7">>, Sentinel>>),
          MkLine(<<Wayback(TS1, UrlBadEscape), HashA, <<"7">>, <<"7">>, Sentinel>>),
          MkLine(<<Use1, HashA>>),
          MkLine(<<Use1>>)}

\* Line 795 and line 826: fmt.Sprintf("%s/%s", ts, url)
compositeKey(ts, u) == ts \o <<"/">> \o u

\* A variant of indexSpark that shares the object of a checksum already indexed.
indexSpark_ShareByHash(st, sol) ==
    LET key == compositeKey(sol.TS, sol.URL)
    IN  IF key \in DOMAIN st.byKey THEN st
        ELSE IF sol.Hash \in DOMAIN st.byHash
        THEN [st EXCEPT !.byKey = MapPut(st.byKey, key, st.byHash[sol.Hash])]
        ELSE [heap |-> Append(st.heap, NewGif(sol.Hash, 0, 0)),
              byKey |-> MapPut(st.byKey, key, Len(st.heap) + 1),
              byHash |-> MapPut(st.byHash, sol.Hash, Len(st.heap) + 1)]

\* A variant of indexSpark that enters the new object in the by-key index only.
indexSpark_KeyOnly(st, sol) ==
    LET key == compositeKey(sol.TS, sol.URL)
    IN  IF key \in DOMAIN st.byKey THEN st
        ELSE [heap |-> Append(st.heap, NewGif(sol.Hash, 0, 0)),
              byKey |-> MapPut(st.byKey, key, Len(st.heap) + 1),
              byHash |-> st.byHash]

\* Lines 795-803: one decoded line of the bulk-job output: a key not yet
\* indexed gets a new skeletal Gif, entered in both indices.
indexSpark(st, sol) ==
    LET key == compositeKey(sol.TS, sol.URL)
    IN  IF key \in DOMAIN st.byKey THEN st
        ELSE [heap |-> Append(st.heap, NewGif(sol.Hash, 0, 0)),
              byKey |-> MapPut(st.byKey, key, Len(st.heap) + 1),
              byHash |-> MapPut(st.byHash, sol.Hash, Len(st.heap) + 1)]

\* A variant of resolve that looks the checksum up first.
resolve_HashFirst(st, key, hash) ==
    IF hash \in DOMAIN st.byHash THEN st.byHash[hash]
    ELSE IF key \in DOMAIN st.byKey THEN st.byKey[key]
    ELSE 0

\* Lines 828-835: the object a manifest line resolves to: by composite key,
\* else by checksum, else none (0).
resolve(st, key, hash) ==
    IF key \in DOMAIN st.byKey THEN st.byKey[key]
    ELSE IF hash \in DOMAIN st.byHash THEN st.byHash[hash]
    ELSE 0

\* A variant of updateGif that also stores the checksum of the manifest line.
updateGif_TakesLineChecksum(hp, g, fields) ==
    IF Len(fields) < 3 THEN [kind |-> "panic", heap |-> hp]
    ELSE IF ParseIntErr(fields[3]) THEN [kind |-> "error", heap |-> hp]
    ELSE IF Len(fields) < 4 THEN [kind |-> "panic", heap |-> hp]
    ELSE IF ParseIntErr(fields[4]) THEN [kind |-> "error", heap |-> hp]
    ELSE LET sized == [hp EXCEPT ![g].Width = ParseIntVal(fields[3]),
                                 ![g].Height = ParseIntVal(fields[4]),
                                 ![g].Checksum = fields[2]]
             r == parseUse(fields)
         IN  IF r.kind # "ok" THEN [kind |-> r.kind, heap |-> sized]
             ELSE [kind |-> "ok",
                   heap |-> [sized EXCEPT ![g].Uses = Append(@, r.use[1]),
                                          ![g].UseCount = @ + 1]]

\* A variant of updateGif that keeps the width and height a record already has.
updateGif_KeepSize(hp, g, fields) ==
    IF Len(fields) < 3 THEN [kind |-> "panic", heap |-> hp]
    ELSE IF ParseIntErr(fields[3]) THEN [kind |-> "error", heap |-> hp]
    ELSE IF Len(fields) < 4 THEN [kind |-> "panic", heap |-> hp]
    ELSE IF ParseIntErr(fields[4]) THEN [kind |-> "error", heap |-> hp]
    ELSE LET sized == IF hp[g].UseCount > 0 THEN hp
                      ELSE [hp EXCEPT ![g].Width = ParseIntVal(fields[3]),
                                      ![g].Height = ParseIntVal(fields[4])]
             r == parseUse(fields)
         IN  IF r.kind # "ok" THEN [kind |-> r.kind, heap |-> sized]
             ELSE [kind |-> "ok",
                   heap |-> [sized EXCEPT ![g].Uses = Append(@, r.use[1]),
                                          ![g].UseCount = @ + 1]]

\* Lines 837-854: width and height are parsed and stored, then the use is parsed,
\* appended and counted.
updateGif(hp, g, fields) ==
    IF Len(fields) < 3 THEN [kind |-> "panic", heap |-> hp]
    ELSE IF ParseIntErr(fields[3]) THEN [kind |-> "error", heap |-> hp]
    ELSE IF Len(fields) < 4 THEN [kind |-> "panic", heap |-> hp]
    ELSE IF ParseIntErr(fields[4]) THEN [kind |-> "error", heap |-> hp]
    ELSE LET sized == [hp EXCEPT ![g].Width = ParseIntVal(fields[3]),
                                 ![g].Height = ParseIntVal(fields[4])]
             r == parseUse(fields)
         IN  IF r.kind # "ok" THEN [kind |-> r.kind, heap |-> sized]
             ELSE [kind |-> "ok",
                   heap |-> [sized EXCEPT ![g].Uses = Append(@, r.use[1]),
                                          ![g].UseCount = @ + 1]]

\* A variant of fixLine that gives up at the first line found in neither index.
fixLine_AbortOnMiss(st, line) ==
    LET fields == Split(line, " ")
        key == compositeKey(splitWaybackURL(fields[1])[1], splitWaybackURL(fields[1])[2])
    IN  IF splitPanics(fields[1]) \/ Len(fields) < 2
        THEN [kind |-> "panic", heap |-> st.heap, miss |-> <<>>]
        ELSE LET g == resolve(st, key, fields[2])
                 r == updateGif(st.heap, g, fields)
             IN  IF g = 0 THEN [kind |-> "error", heap |-> st.heap, miss |-> <<key>>]
                 ELSE [kind |-> r.kind, heap |-> r.heap, miss |-> <<>>]

\* One iteration of the manifest loop of fixmanifest() (lines 822-855); miss
\* holds the key logged as not found, if any.
fixLine(st, line) ==
    LET fields == Split(line, " ")
        key == compositeKey(splitWaybackURL(fields[1])[1], splitWaybackURL(fields[1])[2])
    IN  IF splitPanics(fields[1]) \/ Len(fields) < 2
        THEN [kind |-> "panic", heap |-> st.heap, miss |-> <<>>]
        ELSE LET g == resolve(st, key, fields[2])
                 r == updateGif(st.heap, g, fields)
             IN  IF g = 0 THEN [kind |-> "ok", heap |-> st.heap, miss |-> <<key>>]
                 ELSE [kind |-> r.kind, heap |-> r.heap, miss |-> <<>>]

\* The three structures of fixmanifest() as one value.
FixState == [heap |-> heap, byKey |-> gifsByTSURL, byHash |-> gifsByHash]

\* A variant of emitByKey that fetches each record through the by-checksum index.
emitByKey_ViaHash(st, order) ==
    [i \in 1..Len(order) |-> st.heap[st.byHash[st.heap[st.byKey[order[i]]].Checksum]]]

\* Lines 861-868: one output line per entry of gifsByTSURL, in map iteration order.
emitByKey(st, order) == [i \in 1..Len(order) |-> st.heap[st.byKey[order[i]]]]

InitFixmanifestVars ==
    /\ pc = "spark"
    /\ parseIn = <<>>
    /\ parseRes = [kind |-> "none", use |-> <<>>, what |-> <<>>]
    /\ InitIdle

InitFixmanifest == cmd = "fixmanifest" /\ InitFixmanifestVars

\* Lines 789-804: one line of the bulk-job output.
FixSparkLine ==
    /\ cmd = "fixmanifest"
    /\ pc = "spark"
    /\ Len(sparkRead) < MaxSpark
    /\ \E line \in SparkLines :
        LET st == IF line.valid THEN indexSpark(FixState, line.sol[1]) ELSE FixState
        IN  /\ sparkRead' = Append(sparkRead, line)
            /\ heap' = st.heap
            /\ gifsByTSURL' = st.byKey
            /\ gifsByHash' = st.byHash
            /\ pc' = IF line.valid THEN "spark" ELSE "error"
    /\ UNCHANGED <<uploadVars, scrapeVars, cmd, consumed, seen, out, warn, baseRead, gifs, shard, vread,
                   parseIn, parseRes>>

\* Lines 805-819: the bulk-job output ends; the manifest is opened.
FixSparkEnd ==
    /\ cmd = "fixmanifest"
    /\ pc = "spark"
    /\ pc' = "scan"
    /\ UNCHANGED <<uploadVars, scrapeVars, cmd, consumed, seen, out, warn, baseRead, gifs, shard, vread, sparkRead,
                   heap, gifsByTSURL, gifsByHash, parseIn, parseRes>>

\* Lines 821-856: one line of the manifest.
FixScanLine ==
    /\ cmd = "fixmanifest"
    /\ pc = "scan"
    /\ Len(consumed) < MaxFixLines
    /\ Len(sparkRead) + Len(consumed) < MaxFixTotal
    /\ \E line \in FixLines :
        LET r == fixLine(FixState, line)
        IN  /\ consumed' = Append(consumed, line)
            /\ heap' = r.heap
            /\ warn' = warn \o r.miss
            /\ pc' = IF r.kind = "ok" THEN "scan" ELSE r.kind
    /\ UNCHANGED <<uploadVars, scrapeVars, cmd, seen, out, baseRead, gifs, shard, vread, sparkRead,
                   gifsByTSURL, gifsByHash, parseIn, parseRes>>

\* Lines 857-870: the manifest ends; every record of gifsByTSURL is written.
FixEmit ==
    /\ cmd = "fixmanifest"
    /\ pc = "scan"
    /\ \E order \in Orders(DOMAIN gifsByTSURL) : out' = emitByKey(FixState, order)
    /\ pc' = "done"
    /\ UNCHANGED <<uploadVars, scrapeVars, cmd, consumed, seen, warn, baseRead, gifs, shard, vread, sparkRead,
                   heap, gifsByTSURL, gifsByHash, parseIn, parseRes>>

NextFixmanifest == FixSparkLine \/ FixSparkEnd \/ FixScanLine \/ FixEmit

SpecFixmanifest == InitFixmanifest /\ [][NextFixmanifest]_vars

\* The two passes that build Image Records from the manifest.
InitAggregation == cmd \in {"manifest", "fixmanifest"} /\ (IF cmd = "manifest" THEN InitManifestVars ELSE InitFixmanifestVars)

NextAggregation == NextManifest \/ NextFixmanifest

SpecAggregation == InitAggregation /\ [][NextAggregation]_vars

----------------------------------------------------------------------------
(* The uploads to the object store: upload() and uploadRaw().  The bucket  *)
(* is a map from key to object.  StatObject and PutObject are calls to a   *)
(* remote service: each may return an error whatever the bucket holds, and *)
(* StatObject returns no error only for a key that is present.             *)

\* The bytes of the gif whose checksum is h.
GifBytes(h) == <<"G", "I", "F">> \o h

\* Lines 599-603 and 611-622: the lines of the .gz shards decoded into
\* encodedGif, among them lines that are not JSON and lines whose Gifb64 is not
\* base64; for uploadRaw (lines 468-479) the files of the directory, named by
\* their hash.
UploadEntries ==
    {[valid |-> TRUE, Hash |-> h, b64 |-> ok, Bytes |-> GifBytes(h)] :
        h \in {HashA, HashB}, ok \in BOOLEAN}
    \cup {[valid |-> FALSE, Hash |-> <<>>, b64 |-> FALSE, Bytes |-> <<>>]}

RawEntries == {en \in UploadEntries : en.valid /\ en.b64}

\* An object another writer left in the bucket under the key A.
StoredBefore == [Bytes |-> GifBytes(HashA), ContentType |-> "binary/octet-stream"]

\* Lines 575-577 and 462-464: putOpts.
NewObject(bytes) == [Bytes |-> bytes, ContentType |-> "image/gif"]

\* Lines 623 and 481: the results StatObject can give for key: no error (TRUE)
\* only when the object is there, an error (FALSE) in any case.
StatObject(bucket, key) == IF key \in DOMAIN bucket THEN {TRUE, FALSE} ELSE {FALSE}

\* Lines 613-648, and lines 469-498 with raw: one iteration of the upload loop
\* on one entry; statOk and putOk tell whether StatObject and PutObject
\* returned without error.
uploadEntry(st, en, raw, statOk, putOk) ==
    IF ~raw /\ ~en.valid THEN [st EXCEPT !.kind = "error"]
    ELSE IF statOk
    THEN [st EXCEPT !.prevSeen = @ + 1,
                    !.log = IF raw THEN @ ELSE Append(@, <<"skip", en.Hash>>)]
    ELSE IF ~raw /\ ~en.b64 THEN [st EXCEPT !.kind = "error"]
    ELSE IF ~putOk
    THEN [st EXCEPT !.kind = "error",
                    !.log = IF raw THEN @ ELSE Append(@, <<"fail", en.Hash>>)]
    ELSE [st EXCEPT !.store = MapPut(@, en.Hash, NewObject(en.Bytes)),
                    !.uploads = @ + 1,
                    !.log = IF raw THEN @ ELSE Append(@, <<"success", en.Hash>>)]

UploadState ==
    [kind |-> "ok", store |-> store, prevSeen |-> prevSeen, uploads |-> uploads, log |-> warn]

InitUpload ==
    /\ cmd \in {"upload", "uploadRaw"}
    /\ pc = "loop"
    /\ consumed = <<>>
    /\ seen = EmptyMap
    /\ out = <<>>
    /\ warn = <<>>
    /\ baseRead = <<>>
    /\ gifs = EmptyMap
    /\ shard = 0
    /\ vread = <<>>
    /\ sparkRead = <<>>
    /\ heap = <<>>
    /\ gifsByTSURL = EmptyMap
    /\ gifsByHash = EmptyMap
    /\ parseIn = <<>>
    /\ parseRes = [kind |-> "none", use |-> <<>>, what |-> <<>>]
    /\ store \in {EmptyMap, MapPut(EmptyMap, HashA, StoredBefore)}
    /\ entries = <<>>
    /\ prevSeen = 0
    /\ uploads = 0
    /\ tagIn = <<>>
    /\ propIn = <<>>
    /\ scrapeOut = <<>>

\* Lines 611-648 and 468-498: the next entry is read and handled.
UploadEntry ==
    /\ cmd \in {"upload", "uploadRaw"}
    /\ pc = "loop"
    /\ Len(entries) < MaxEntries
    /\ \E en \in (IF cmd = "uploadRaw" THEN RawEntries ELSE UploadEntries) :
        \E statOk \in StatObject(store, en.Hash), putOk \in BOOLEAN :
            LET r == uploadEntry(UploadState, en, cmd = "uploadRaw", statOk, putOk)
            IN  /\ entries' = Append(entries, [entry |-> en, statOk |-> statOk, putOk |-> putOk])
                /\ store' = r.store
                /\ prevSeen' = r.prevSeen
                /\ uploads' = r.uploads
                /\ warn' = r.log
                /\ pc' = IF r.kind = "ok" THEN "loop" ELSE "error"
    /\ UNCHANGED <<scrapeVars, cmd, consumed, seen, out, baseRead, gifs, shard, vread,
                   sparkRead, heap, gifsByTSURL, gifsByHash, parseIn, parseRes>>

\* Lines 649-660 and 500-501: the entries are exhausted.
UploadEnd ==
    /\ cmd \in {"upload", "uploadRaw"}
    /\ pc = "loop"
    /\ pc' = "done"
    /\ UNCHANGED <<uploadVars, scrapeVars, cmd, consumed, seen, out, warn, baseRead, gifs,
                   shard, vread, sparkRead, heap, gifsByTSURL, gifsByHash, parseIn,
                   parseRes>>

NextUpload == UploadEntry \/ UploadEnd

SpecUpload == InitUpload /\ [][NextUpload]_vars

----------------------------------------------------------------------------
(* The HTML attribute scraper: extractProp() and findImgs().               *)

DQ == "\""

SQ == "'"

\* strings.Index(s, p) + 1 for a non-empty p: the position of the first
\* occurrence of p in s, 0 when there is none.
IndexStr(s, p) ==
    LET at == {i \in 1..(Len(s) - Len(p) + 1) : SubSeq(s, i, i + Len(p) - 1) = p}
    IN  IF at = {} THEN 0 ELSE CHOOSE i \in at : \A j \in at : i <= j

\* strings.Contains
Contains(s, p) == IndexStr(s, p) # 0

\* Lines 288-289: FindStringSubmatch of the pattern q([^q]+)q on s, q being the
\* quote character: the leftmost q that is followed by at least one other
\* character and then a q; the result holds the group, or is empty.
FindQuoted(s, q) ==
    LET opens == {i \in 1..Len(s) :
                    /\ s[i] = q
                    /\ i + 1 <= Len(s)
                    /\ s[i + 1] # q
                    /\ \E j \in (i + 2)..Len(s) : s[j] = q}
    IN  IF opens = {} THEN <<>>
        ELSE LET i == CHOOSE a \in opens : \A b \in opens : a <= b
                 j == CHOOSE a \in (i + 2)..Len(s) :
                        s[a] = q /\ \A b \in (i + 2)..(a - 1) : s[b] # q
             IN  <<SubSeq(s, i + 1, j - 1)>>

\* Lines 291-319.  start is the position after the first occurrence of prop.
extractProp(s, prop) ==
    LET propIx == IndexStr(s, prop)
        start == propIx + Len(prop)
        quotes == {x \in start..Len(s) : s[x] \in {DQ, SQ}}
        first == CHOOSE x \in quotes : \A y \in quotes : x <= y
        matches == FindQuoted(SubSeq(s, start, Len(s)), s[first])
    IN  IF propIx = 0 THEN <<>>
        ELSE IF start > Len(s) THEN <<>>
        ELSE IF quotes = {} THEN <<>>
        ELSE IF matches = <<>> THEN <<>>
        ELSE matches[1]

Upper == <<"I", "M", "G", "P">>

Lower == <<"i", "m", "g", "p">>

\* strings.ToLower, on the letters of the documents below.
ToLower(s) ==
    [i \in 1..Len(s) |->
        IF \E k \in 1..Len(Upper) : Upper[k] = s[i]
        THEN Lower[CHOOSE k \in 1..Len(Upper) : Upper[k] = s[i]]
        ELSE s[i]]

\* The characters \s matches.
Whitespace == {" ", "\t", "\n", "\f", "\r"}

\* Line 244: imgTagRe, ^\s*?img
MatchImgTag(s) ==
    \E n \in 0..Len(s) :
        /\ \A i \in 1..n : s[i] \in Whitespace
        /\ n + 3 <= Len(s)
        /\ SubSeq(s, n + 1, n + 3) = <<"i", "m", "g">>

\* Lines 263-279: what a tag that has just been closed adds to out.
closeTag(res, tagBuff) ==
    LET lowered == ToLower(tagBuff)
        alt == extractProp(tagBuff, <<"a", "l", "t">>)
        src == extractProp(tagBuff, <<"s", "r", "c">>)
    IN  IF /\ MatchImgTag(lowered)
           /\ Contains(lowered, <<".", "g", "i", "f">>)
           /\ Contains(lowered, <<"a", "l", "t">>)
           /\ (alt # <<>> \/ src # <<>>)
        THEN Append(res, [Src |-> src, Alt |-> alt])
        ELSE res

RECURSIVE scanTags(_, _, _, _, _)
\* Lines 249-283: the loop of findImgs from position pos on.
scanTags(s, pos, inTag, tagBuff, res) ==
    IF pos > Len(s) THEN res
    ELSE LET buff == IF inTag THEN Append(tagBuff, s[pos]) ELSE tagBuff
         IN  IF s[pos] = ">" THEN scanTags(s, pos + 1, FALSE, <<>>, closeTag(res, buff))
             ELSE scanTags(s, pos + 1, inTag \/ s[pos] = "<", buff, res)

\* Lines 242-286.
findImgs(s) == scanTags(s, 1, FALSE, <<>>, <<>>)

RECURSIVE Texts(_, _)
\* The texts made of at most n of the given pieces.
Texts(pieces, n) ==
    IF n = 0 THEN {<<>>}
    ELSE Texts(pieces, n - 1) \cup {t \o p : t \in Texts(pieces, n - 1), p \in pieces}

\* The pieces of the tag texts handed to extractProp.
PropPieces ==
    {<<"a", "l", "t">>, <<"=">>, <<DQ>>, <<SQ>>, <<"x">>}

\* The pieces of the HTML fragments handed to findImgs.
TagPieces ==
    {<<"<", "i", "m", "g", " ">>,
     <<"<", "I", "M", "G", " ">>,
     <<"<", "p", " ">>,
     <<"s", "r", "c", "=", DQ, "a", ".", "g", "i", "f", DQ, " ">>,
     <<"s", "r", "c", "=", DQ, "a", "l", "t", ".", "g", "i", "f", DQ, " ">>,
     <<"a", "l", "t", "=", DQ, "x", DQ, " ">>,
     <<"a", "l", "t", "=", DQ, DQ, " ">>,
     <<">">>}

PropTexts == Texts(PropPieces, MaxPropPieces)

TagTexts == Texts(TagPieces, MaxTagPieces)

InitScrape ==
    /\ cmd \in {"extractProp", "findImgs"}
    /\ pc = "call"
    /\ consumed = <<>>
    /\ seen = EmptyMap
    /\ out = <<>>
    /\ warn = <<>>
    /\ baseRead = <<>>
    /\ gifs = EmptyMap
    /\ shard = 0
    /\ vread = <<>>
    /\ sparkRead = <<>>
    /\ heap = <<>>
    /\ gifsByTSURL = EmptyMap
    /\ gifsByHash = EmptyMap
    /\ parseIn = <<>>
    /\ parseRes = [kind |-> "none", use |-> <<>>, what |-> <<>>]
    /\ store = EmptyMap
    /\ entries = <<>>
    /\ prevSeen = 0
    /\ uploads = 0
    /\ tagIn \in (IF cmd = "extractProp" THEN PropTexts ELSE TagTexts)
    /\ propIn = IF cmd = "extractProp" THEN <<"a", "l", "t">> ELSE <<>>
    /\ scrapeOut = <<>>

\* One call of extractProp.
ExtractPropCall ==
    /\ cmd = "extractProp"
    /\ pc = "call"
    /\ scrapeOut' = extractProp(tagIn, propIn)
    /\ pc' = "returned"
    /\ UNCHANGED <<uploadVars, tagIn, propIn, cmd, consumed, seen, out, warn, baseRead, gifs,
                   shard, vread, sparkRead, heap, gifsByTSURL, gifsByHash, parseIn,
                   parseRes>>

\* One call of findImgs.
FindImgsCall ==
    /\ cmd = "findImgs"
    /\ pc = "call"
    /\ scrapeOut' = findImgs(tagIn)
    /\ pc' = "returned"
    /\ UNCHANGED <<uploadVars, tagIn, propIn, cmd, consumed, seen, out, warn, baseRead, gifs,
                   shard, vread, sparkRead, heap, gifsByTSURL, gifsByHash, parseIn,
                   parseRes>>

NextScrape == ExtractPropCall \/ FindImgsCall

SpecScrape == InitScrape /\ [][NextScrape]_vars

----------------------------------------------------------------------------
(* The deduplication of the bulk-job output: extractSparkUnique().         *)

\* Lines of a bulk-job shard decoded into soLine (lines 358-363), each with its
\* gif payload, and one line that is not JSON.
ShardLines ==
    {[valid |-> TRUE,
      sol |-> <<[Hash |-> h, URL |-> k[2], TS |-> k[1], Gifb64 |-> GifBytes(h)]>>] :
        h \in {HashA, HashB}, k \in {<<TS1, UrlA>>, <<TS2, UrlB>>}}
    \cup {[valid |-> FALSE, sol |-> <<>>]}

\* A variant of uniqueLine that keeps the last line of a hash.
uniqueLine_LastWins(gs, sol) == MapPut(gs, sol.Hash, [sol EXCEPT !.Gifb64 = <<>>])

\* Lines 929-934: the payload is cleared and the line is kept if its hash is
\* not in gifs yet.
uniqueLine(gs, sol) ==
    IF sol.Hash \in DOMAIN gs THEN gs
    ELSE MapPut(gs, sol.Hash, [sol EXCEPT !.Gifb64 = <<>>])

\* Lines 942-949: one output line per entry of gifs, in map iteration order.
emitUnique(gs, order) == [i \in 1..Len(order) |-> gs[order[i]]]

InitExtract ==
    /\ cmd = "extractSparkUnique"
    /\ pc = "entries"
    /\ parseIn = <<>>
    /\ parseRes = [kind |-> "none", use |-> <<>>, what |-> <<>>]
    /\ InitIdle

\* Lines 906-909: a directory entry whose name does not end in .gz is passed over.
ExSkipEntry ==
    /\ cmd = "extractSparkUnique"
    /\ pc = "entries"
    /\ shard < MaxShards
    /\ shard' = shard + 1
    /\ UNCHANGED <<uploadVars, scrapeVars, cmd, pc, consumed, seen, out, warn, baseRead, gifs,
                   vread, sparkRead, heap, gifsByTSURL, gifsByHash, parseIn, parseRes>>

\* Lines 910-923: the next .gz entry is opened as a gzip stream.
ExOpenShard ==
    /\ cmd = "extractSparkUnique"
    /\ pc = "entries"
    /\ shard < MaxShards
    /\ shard' = shard + 1
    /\ pc' = "lines"
    /\ UNCHANGED <<uploadVars, scrapeVars, cmd, consumed, seen, out, warn, baseRead, gifs,
                   vread, sparkRead, heap, gifsByTSURL, gifsByHash, parseIn, parseRes>>

\* Lines 910-918: the next .gz entry cannot be opened or is no gzip file.
ExOpenFails ==
    /\ cmd = "extractSparkUnique"
    /\ pc = "entries"
    /\ shard < MaxShards
    /\ shard' = shard + 1
    /\ pc' = "error"
    /\ UNCHANGED <<uploadVars, scrapeVars, cmd, consumed, seen, out, warn, baseRead, gifs,
                   vread, sparkRead, heap, gifsByTSURL, gifsByHash, parseIn, parseRes>>

\* Lines 924-935: one line of the current shard.
ExLine ==
    /\ cmd = "extractSparkUnique"
    /\ pc = "lines"
    /\ Len(vread) < MaxBulkLines
    /\ \E line \in ShardLines :
        /\ vread' = Append(vread, <<shard, line>>)
        /\ gifs' = IF line.valid THEN uniqueLine(gifs, line.sol[1]) ELSE gifs
        /\ pc' = IF line.valid THEN "lines" ELSE "error"
    /\ UNCHANGED <<uploadVars, scrapeVars, cmd, consumed, seen, out, warn, baseRead, shard,
                   sparkRead, heap, gifsByTSURL, gifsByHash, parseIn, parseRes>>

\* Lines 936-939: the current shard ends.
ExShardEnd ==
    /\ cmd = "extractSparkUnique"
    /\ pc = "lines"
    /\ pc' = "entries"
    /\ UNCHANGED <<uploadVars, scrapeVars, cmd, consumed, seen, out, warn, baseRead, gifs, shard,
                   vread, sparkRead, heap, gifsByTSURL, gifsByHash, parseIn, parseRes>>

\* Lines 941-951: no entry is left; every line kept in gifs is written.
ExEmit ==
    /\ cmd = "extractSparkUnique"
    /\ pc = "entries"
    /\ \E order \in Orders(DOMAIN gifs) : out' = emitUnique(gifs, order)
    /\ pc' = "done"
    /\ UNCHANGED <<uploadVars, scrapeVars, cmd, consumed, seen, warn, baseRead, gifs, shard,
                   vread, sparkRead, heap, gifsByTSURL, gifsByHash, parseIn, parseRes>>

NextExtract == ExSkipEntry \/ ExOpenShard \/ ExOpenFails \/ ExLine \/ ExShardEnd \/ ExEmit

SpecExtract == InitExtract /\ [][NextExtract]_vars

----------------------------------------------------------------------------
(* Properties of the parser and of the aggregation pass.                   *)

Fields(line) == Split(line, " ")

\* The positions of the consumed lines that carry checksum c.
LinesWith(c) == {i \in 1..Len(consumed) : Len(Fields(consumed[i])) >= 2 /\ Fields(consumed[i])[2] = c}

First(S) == CHOOSE i \in S : \A j \in S : i <= j

Last(S) == CHOOSE i \in S : \A j \in S : j <= i

\* The pass has accepted every line consumed so far.
ManifestRunning == cmd = "manifest" /\ pc \in {"scan", "done"}

\* C1: in the aggregation pass the width and height of a record, in memory and
\* as emitted, are those of the first line carrying its checksum.
C1_FirstWriteWins ==
    ManifestRunning =>
        /\ \A c \in DOMAIN seen :
            /\ LinesWith(c) # {}
            /\ seen[c].Width = ParseIntVal(Fields(consumed[First(LinesWith(c))])[3])
            /\ seen[c].Height = ParseIntVal(Fields(consumed[First(LinesWith(c))])[4])
        /\ \A k \in 1..Len(out) :
            /\ out[k].Width = ParseIntVal(Fields(consumed[First(LinesWith(out[k].Checksum))])[3])
            /\ out[k].Height = ParseIntVal(Fields(consumed[First(LinesWith(out[k].Checksum))])[4])

\* A checksum was seen with width 7 and then with width 9, and 7 was emitted.
C1_Witness ==
    /\ cmd = "manifest"
    /\ pc = "done"
    /\ Len(consumed) >= 2
    /\ Fields(consumed[1])[2] = HashA
    /\ Fields(consumed[2])[2] = HashA
    /\ Fields(consumed[1])[3] = <<"7">>
    /\ Fields(consumed[2])[3] = <<"9">>
    /\ \E k \in 1..Len(out) : out[k].Checksum = HashA /\ out[k].Width = 7 /\ out[k].Height = 7

\* C3: the aggregation pass emits exactly one record per distinct checksum of
\* the input.
C3_OneRecordPerChecksum ==
    (cmd = "manifest" /\ pc = "done") =>
        /\ \A i, j \in 1..Len(out) : out[i].Checksum = out[j].Checksum => i = j
        /\ {out[i].Checksum : i \in 1..Len(out)} = {Fields(consumed[k])[2] : k \in 1..Len(consumed)}

\* Three lines over two checksums were aggregated into two records.
C3_Witness ==
    /\ cmd = "manifest"
    /\ pc = "done"
    /\ Len(consumed) = 3
    /\ Len(out) = 2
    /\ {out[i].Checksum : i \in 1..Len(out)} = {HashA, HashB}

\* A line whose width or height is no 32-bit integer, or whose URL does not parse.
Malformed(line) ==
    LET f == Fields(line)
    IN  \/ Len(f) >= 3 /\ ParseIntErr(f[3])
        \/ Len(f) >= 4 /\ ParseIntErr(f[4])
        \/ ~splitPanics(f[1]) /\ urlParse(splitWaybackURL(f[1])[2]).err

\* C4: a malformed line at any position, its checksum seen before or not, makes
\* the aggregation pass return an error and emit nothing.
C4_FailFast ==
    cmd = "manifest" =>
        \A i \in 1..Len(consumed) : Malformed(consumed[i]) => (pc = "error" /\ out = <<>>)

\* C5: the Use of a parsed line has no Page exactly if field 5 is the sentinel;
\* otherwise field 5 is the Page's timestamp, a '/', and the Page's url, and
\* the timestamp holds no '/'.
C5_PageOptionality ==
    (cmd = "parseUse" /\ parseRes.kind = "ok") =>
        LET page == parseRes.use[1].Page
        IN  /\ (page = <<>>) <=> (parseIn[5] = Sentinel)
            /\ page # <<>> =>
                /\ parseIn[5] = page[1].Timestamp \o <<"/">> \o page[1].URL
                /\ Index(page[1].Timestamp, "/") = 0

\* Field 5 is "3/p/q": the Page has timestamp "3" and url "p/q".
C5_Witness ==
    /\ cmd = "parseUse"
    /\ parseRes.kind = "ok"
    /\ parseIn[5] = Page3
    /\ parseRes.use[1].Page = <<[Timestamp |-> <<"3">>, URL |-> <<"p", "/", "q">>]>>

\* A line that cannot be split as the parser's contract requires.
Unsplittable(fields) ==
    \/ Len(fields) < 5
    \/ Index(fields[1], "/") = 0
    \/ fields[5] # Sentinel /\ Index(fields[5], "/") = 0

\* C6: parsing a line with fewer than five fields, or whose use field or
\* non-sentinel page field holds no '/', returns an error and never crashes.
C6_UnsplittableReturnsError ==
    (cmd = "parseUse" /\ pc = "returned" /\ Unsplittable(parseIn)) => parseRes.kind = "error"

----------------------------------------------------------------------------
(* Properties of the enrichment merge.                                     *)

\* Base file and shards have been decoded without error so far.
VecRunning == cmd = "vecmerge" /\ pc \in {"entries", "lines", "done"}

BaseChecksums == {baseRead[i].gif[1].Checksum : i \in {j \in 1..Len(baseRead) : baseRead[j].valid}}

\* The base record of checksum c: the last base line carrying it.
BaseOf(c) ==
    baseRead[Last({i \in 1..Len(baseRead) : baseRead[i].valid /\ baseRead[i].gif[1].Checksum = c})].gif[1]

\* The positions of the enrichment records naming c, in processing order.
Naming(c) == {i \in 1..Len(vread) : vread[i][2].valid /\ vread[i][2].rec[1].Hash = c}

\* The checksums of the enrichment records that found no base record, in order.
Unmatched ==
    LET Missing(e) == e[2].valid /\ e[2].rec[1].Hash \notin BaseChecksums
        sel == SelectSeq(vread, Missing)
    IN  [j \in 1..Len(sel) |-> sel[j][2].rec[1].Hash]

C7_StateInv ==
    VecRunning =>
        /\ DOMAIN gifs = BaseChecksums
        /\ warn = Unmatched
        /\ pc = "done" =>
            /\ {out[k].Checksum : k \in 1..Len(out)} = BaseChecksums
            /\ Len(out) = Cardinality(BaseChecksums)

C7_Step ==
    (/\ cmd = "vecmerge"
     /\ pc = "lines"
     /\ vread' # vread
     /\ vread'[Len(vread')][2].valid
     /\ vread'[Len(vread')][2].rec[1].Hash \notin DOMAIN gifs)
    => (/\ gifs' = gifs
        /\ out' = out
        /\ warn' = Append(warn, vread'[Len(vread')][2].rec[1].Hash)
        /\ pc' = "lines")

\* C7: an enrichment record whose checksum is not in the base set creates no
\* record (the emitted checksums are the base checksums), changes no record,
\* writes exactly one warning naming its checksum, and the merge goes on.
C7_DropUnknown == [](C7_StateInv) /\ [][C7_Step]_vars

\* A record for the unknown checksum C was merged against a base holding A:
\* one warning, one emitted record.
C7_Witness ==
    /\ cmd = "vecmerge"
    /\ pc = "done"
    /\ Len(vread) >= 2
    /\ vread[1][2].rec[1].Hash = HashC
    /\ vread[2][2].rec[1].Hash = HashA
    /\ warn = <<HashC>>
    /\ Len(out) = 1
    /\ out[1].Checksum = HashA
    /\ Len(out[1].Vecs) = 1

\* C8: the score and model id of a record named by enrichment records are those
\* of the last such record in processing order.
C8_LastRecordWins ==
    VecRunning =>
        /\ \A c \in DOMAIN gifs :
            Naming(c) # {} =>
                /\ gifs[c].MNSFW = vread[Last(Naming(c))][2].rec[1].MNSFW
                /\ gifs[c].Mspec = vread[Last(Naming(c))][2].rec[1].Mspec
        /\ \A k \in 1..Len(out) :
            Naming(out[k].Checksum) # {} =>
                /\ out[k].MNSFW = vread[Last(Naming(out[k].Checksum))][2].rec[1].MNSFW
                /\ out[k].Mspec = vread[Last(Naming(out[k].Checksum))][2].rec[1].Mspec

\* Shard 1 gave checksum A the score 2, shard 2 the score 1: 1 is emitted.
C8_Witness ==
    /\ cmd = "vecmerge"
    /\ pc = "done"
    /\ Len(vread) = 2
    /\ vread[1][1] = 1
    /\ vread[2][1] = 2
    /\ vread[1][2].rec[1].Hash = HashA
    /\ vread[2][2].rec[1].Hash = HashA
    /\ vread[1][2].rec[1].MNSFW = 2
    /\ vread[2][2].rec[1].MNSFW = 1
    /\ \E k \in 1..Len(out) : out[k].Checksum = HashA /\ out[k].MNSFW = 1 /\ out[k].Mspec = <<"m", "1">>

\* The shards holding an enrichment record for c.
ShardsNaming(c) == {vread[i][1] : i \in Naming(c)}

\* The j-th smallest element of a set of numbers.
Nth(S, j) == CHOOSE x \in S : Cardinality({y \in S : y <= x}) = j

\* C9 as stated: an emitted record holds exactly one Vector per shard that names
\* its checksum, in shard order, each an embedding of that shard.
C9_OneVectorPerShard ==
    (cmd = "vecmerge" /\ pc = "done") =>
        \A k \in 1..Len(out) :
            /\ Len(out[k].Vecs) = Cardinality(ShardsNaming(out[k].Checksum))
            /\ \A j \in 1..Len(out[k].Vecs) :
                \E i \in Naming(out[k].Checksum) :
                    /\ vread[i][1] = Nth(ShardsNaming(out[k].Checksum), j)
                    /\ out[k].Vecs[j].Vector = vread[i][2].rec[1].Embedding

\* The Vectors built from the enrichment records naming c, in processing order.
VectorsFor(c) ==
    LET Names(e) == e[2].valid /\ e[2].rec[1].Hash = c
        sel == SelectSeq(vread, Names)
    IN  [j \in 1..Len(sel) |-> [Vector |-> sel[j][2].rec[1].Embedding]]

\* C9 as amended: a record holds the vectors of its base record followed by
\* exactly one Vector per enrichment record (line) naming its checksum, in
\* processing order, each equal to that record's embedding.
C9_OneVectorPerRecord ==
    VecRunning =>
        /\ \A c \in DOMAIN gifs : gifs[c].Vecs = BaseOf(c).Vecs \o VectorsFor(c)
        /\ \A k \in 1..Len(out) :
            out[k].Vecs = BaseOf(out[k].Checksum).Vecs \o VectorsFor(out[k].Checksum)

\* One shard named checksum A twice: the emitted record holds both embeddings.
C9_Witness ==
    /\ cmd = "vecmerge"
    /\ pc = "done"
    /\ Len(vread) = 2
    /\ vread[1][1] = 1
    /\ vread[2][1] = 1
    /\ vread[1][2].rec[1].Hash = HashA
    /\ vread[2][2].rec[1].Hash = HashA
    /\ \E k \in 1..Len(out) :
        /\ out[k].Checksum = HashA
        /\ out[k].Vecs = <<[Vector |-> <<1, 2>>], [Vector |-> <<3>>]>>

----------------------------------------------------------------------------
(* Properties of the reconciliation pass, and of both manifest passes.     *)

\* C2: in the aggregation pass and in the reconciliation pass, the use count of
\* every record, in memory after each line and as emitted, is the length of its
\* uses.
C2_UseCountIsLength ==
    cmd \in {"manifest", "fixmanifest"} =>
        /\ \A c \in DOMAIN seen : seen[c].UseCount = Len(seen[c].Uses)
        /\ \A g \in 1..Len(heap) : heap[g].UseCount = Len(heap[g].Uses)
        /\ \A k \in 1..Len(out) : out[k].UseCount = Len(out[k].Uses)

\* The reconciliation pass emitted a record with two uses, counted as two.
C2_Witness ==
    /\ cmd = "fixmanifest"
    /\ pc = "done"
    /\ \E k \in 1..Len(out) : out[k].UseCount = 2 /\ Len(out[k].Uses) = 2

\* The composite key of a manifest line, read off its first field.
KeyOf(line) == Fields(line)[1]

\* The hash of the bulk-job line that created the object indexed under key.
BulkHash(key) ==
    LET S == {i \in 1..Len(sparkRead) :
                /\ sparkRead[i].valid
                /\ sparkRead[i].sol[1].TS \o <<"/">> \o sparkRead[i].sol[1].URL = key}
    IN  sparkRead[First(S)].sol[1].Hash

\* A manifest line was accepted whose composite key is in the by-key index.
KeyHitStep ==
    /\ cmd = "fixmanifest"
    /\ pc = "scan"
    /\ pc' = "scan"
    /\ consumed' # consumed
    /\ KeyOf(consumed'[Len(consumed')]) \in DOMAIN gifsByTSURL

C10_Step ==
    KeyHitStep =>
        LET line == consumed'[Len(consumed')]
            r1 == gifsByTSURL[KeyOf(line)]
        IN  /\ heap'[r1].Uses = Append(heap[r1].Uses, parseUse(Fields(line)).use[1])
            /\ heap'[r1].Checksum = BulkHash(KeyOf(line))
            /\ \A g \in 1..Len(heap) : g # r1 => heap'[g] = heap[g]
            /\ Len(heap') = Len(heap)
            /\ warn' = warn

C10_Emitted ==
    (cmd = "fixmanifest" /\ pc = "done") =>
        /\ Len(out) = Cardinality(DOMAIN gifsByTSURL)
        /\ \A key \in DOMAIN gifsByTSURL :
            \E k \in 1..Len(out) :
                /\ out[k] = heap[gifsByTSURL[key]]
                /\ out[k].Checksum = BulkHash(key)

\* C10: a manifest line whose composite key is in the by-key index is appended
\* to that key's record only, whatever its checksum field (also when another
\* record is indexed under that checksum), and the record is emitted with the
\* bulk-job hash of its key.
C10_CompositeKeyFirst == [](C10_Emitted) /\ [][C10_Step]_vars

\* The bulk job gave key 1 the hash A and key 2 the hash B; the manifest line
\* for key 1 carries checksum B: record A got the use, record B none.
C10_Witness ==
    /\ cmd = "fixmanifest"
    /\ pc = "done"
    /\ Len(sparkRead) = 2
    /\ sparkRead[1].sol[1] = [Hash |-> HashA, TS |-> TS1, URL |-> UrlA]
    /\ sparkRead[2].sol[1] = [Hash |-> HashB, TS |-> TS2, URL |-> UrlB]
    /\ Len(consumed) = 1
    /\ Fields(consumed[1])[1] = Use1
    /\ Fields(consumed[1])[2] = HashB
    /\ heap[1].Checksum = HashA
    /\ Len(heap[1].Uses) = 1
    /\ heap[2].Checksum = HashB
    /\ heap[2].Uses = <<>>
    /\ \E k \in 1..Len(out) : out[k].Checksum = HashA /\ out[k].UseCount = 1
    /\ \E k \in 1..Len(out) : out[k].Checksum = HashB /\ out[k].UseCount = 0

----------------------------------------------------------------------------
(* Properties of the reconciliation pass.                                  *)

FixRunning == cmd = "fixmanifest" /\ pc \in {"scan", "done"}

\* A manifest line with a wayback URL and a checksum, neither of them indexed.
DoubleMiss(line) ==
    /\ Len(Fields(line)) >= 2
    /\ \E i \in 1..Len(KeyOf(line)) : KeyOf(line)[i] = "/"
    /\ KeyOf(line) \notin DOMAIN gifsByTSURL
    /\ Fields(line)[2] \notin DOMAIN gifsByHash

\* The lines scanned so far that were found in neither index.
Misses == {i \in 1..Len(consumed) : DoubleMiss(consumed[i])}

C11_Step ==
    (cmd = "fixmanifest" /\ pc = "scan" /\ consumed' # consumed
        /\ DoubleMiss(consumed'[Len(consumed')])) =>
        /\ warn' = Append(warn, KeyOf(consumed'[Len(consumed')]))
        /\ heap' = heap
        /\ gifsByTSURL' = gifsByTSURL
        /\ gifsByHash' = gifsByHash
        /\ out' = out
        /\ pc' = "scan"

C11_Logged ==
    FixRunning =>
        /\ Len(warn) = Cardinality(Misses)
        /\ \A i \in Misses : \E k \in 1..Len(warn) : warn[k] = KeyOf(consumed[i])

\* C11: a manifest line found in neither index is dropped: the step logs one
\* warning for it, changes no record and no index, and leaves the pass scanning,
\* so that the lines after it are read; the log holds one warning per such line.
C11_DoubleMissDropped == [](C11_Logged) /\ [][C11_Step]_vars

\* The first manifest line was found in neither index (even its width is not a
\* number), the second was resolved, and the pass completed.
C11_Witness ==
    /\ cmd = "fixmanifest"
    /\ pc = "done"
    /\ Len(consumed) = 2
    /\ DoubleMiss(consumed[1])
    /\ Len(Fields(consumed[1])) = 5
    /\ Fields(consumed[1])[3] = <<"w">>
    /\ ~DoubleMiss(consumed[2])
    /\ Len(warn) = 1
    /\ \E k \in 1..Len(out) : out[k].UseCount = 1 /\ Len(out[k].Uses) = 1

\* The object a scanned line was resolved to: by its key, else by its checksum.
Target(line) ==
    IF KeyOf(line) \in DOMAIN gifsByTSURL THEN gifsByTSURL[KeyOf(line)]
    ELSE gifsByHash[Fields(line)[2]]

\* The lines scanned so far that were resolved to object g.
LinesTo(g) == {i \in 1..Len(consumed) : ~DoubleMiss(consumed[i]) /\ Target(consumed[i]) = g}

\* C12: while the reconciliation pass runs and when it has emitted, a record has
\* uses exactly if some manifest line resolved to it (by key or by checksum), and
\* its width and height are those of the last such line; every emitted record is
\* one of these records.
C12_LastSizeWins ==
    FixRunning =>
        /\ \A g \in 1..Len(heap) :
            /\ heap[g].Uses # <<>> <=> LinesTo(g) # {}
            /\ LinesTo(g) # {} =>
                /\ heap[g].Width = ParseIntVal(Fields(consumed[Last(LinesTo(g))])[3])
                /\ heap[g].Height = ParseIntVal(Fields(consumed[Last(LinesTo(g))])[4])
        /\ \A k \in 1..Len(out) : \E g \in 1..Len(heap) : out[k] = heap[g]

\* A record got a 7x7 line through its key and then a 9x8 line through its
\* checksum, and is emitted as 9x8 with two uses.
C12_Witness ==
    /\ cmd = "fixmanifest"
    /\ pc = "done"
    /\ Len(consumed) = 2
    /\ KeyOf(consumed[1]) \in DOMAIN gifsByTSURL
    /\ KeyOf(consumed[2]) \notin DOMAIN gifsByTSURL
    /\ LinesTo(1) = {1, 2}
    /\ Fields(consumed[1])[3] = <<"7">>
    /\ Fields(consumed[1])[4] = <<"7">>
    /\ Fields(consumed[2])[3] = <<"9">>
    /\ Fields(consumed[2])[4] = <<"8">>
    /\ \E k \in 1..Len(out) : out[k].Width = 9 /\ out[k].Height = 8 /\ out[k].UseCount = 2

\* The decoded lines of the bulk-job output read so far.
Bulk == {i \in 1..Len(sparkRead) : sparkRead[i].valid}

BulkKeyAt(i) == sparkRead[i].sol[1].TS \o <<"/">> \o sparkRead[i].sol[1].URL

BulkHashAt(i) == sparkRead[i].sol[1].Hash

\* The composite keys of the bulk-job output.
BulkKeys == {BulkKeyAt(i) : i \in Bulk}

\* C13 as stated: whenever the bulk-job output holds a checksum under two
\* different composite keys, two emitted records carry that checksum.
C13_TwoRecordsPerSharedChecksum ==
    (cmd = "fixmanifest" /\ pc = "done") =>
        \A i, j \in Bulk :
            (BulkHashAt(i) = BulkHashAt(j) /\ BulkKeyAt(i) # BulkKeyAt(j)) =>
                \E a, b \in 1..Len(out) :
                    /\ a # b
                    /\ out[a].Checksum = BulkHashAt(i)
                    /\ out[b].Checksum = BulkHashAt(i)

\* C13, amended: two different composite keys whose first bulk-job lines carry
\* the same checksum are indexed to two separate records, and both records are
\* emitted, each carrying that checksum; nothing is merged across keys.
C13_NoDedupAcrossKeys ==
    (cmd = "fixmanifest" /\ pc = "done") =>
        \A k1, k2 \in BulkKeys :
            (k1 # k2 /\ BulkHash(k1) = BulkHash(k2)) =>
                /\ gifsByTSURL[k1] # gifsByTSURL[k2]
                /\ \E a, b \in 1..Len(out) :
                    /\ a # b
                    /\ out[a] = heap[gifsByTSURL[k1]]
                    /\ out[b] = heap[gifsByTSURL[k2]]
                    /\ out[a].Checksum = BulkHash(k1)
                    /\ out[b].Checksum = BulkHash(k1)

\* The bulk job gave hash A to key 1 and to key 2, the manifest had one line
\* for each key, and two records with checksum A and one use each are emitted.
C13_Witness ==
    /\ cmd = "fixmanifest"
    /\ pc = "done"
    /\ Len(sparkRead) = 2
    /\ sparkRead[1].sol[1] = [Hash |-> HashA, TS |-> TS1, URL |-> UrlA]
    /\ sparkRead[2].sol[1] = [Hash |-> HashA, TS |-> TS2, URL |-> UrlB]
    /\ Len(consumed) = 2
    /\ Len(out) = 2
    /\ out[1].Checksum = HashA
    /\ out[2].Checksum = HashA
    /\ out[1].UseCount = 1
    /\ out[2].UseCount = 1
    /\ out[1].Uses # out[2].Uses

\* The bulk-job output has been read and no manifest line yet.
AfterBulkScan == cmd = "fixmanifest" /\ pc = "scan" /\ consumed = <<>>

\* The bulk-job lines that are the first of their composite key.
FirstOfKey == {i \in Bulk : \A j \in Bulk : BulkKeyAt(j) = BulkKeyAt(i) => i <= j}

\* C14 as stated: after the bulk scan every bulk-job line has its key in the
\* by-key index and its hash in the by-checksum index, both referring to one
\* skeletal record with that hash.
C14_LocatableByEither ==
    AfterBulkScan =>
        \A i \in Bulk :
            /\ BulkKeyAt(i) \in DOMAIN gifsByTSURL
            /\ BulkHashAt(i) \in DOMAIN gifsByHash
            /\ gifsByTSURL[BulkKeyAt(i)] = gifsByHash[BulkHashAt(i)]
            /\ heap[gifsByTSURL[BulkKeyAt(i)]].Checksum = BulkHashAt(i)
            /\ heap[gifsByTSURL[BulkKeyAt(i)]].Uses = <<>>

\* C14, amended: after the bulk scan the by-key index holds exactly the keys of
\* the bulk-job output, each referring to its own skeletal record with the hash
\* of the first line of that key; the by-checksum index holds exactly the
\* hashes of those first lines, each referring to the record of the last first
\* line with that hash: the record shared with that line's key.
C14_IndicesAfterBulkScan ==
    AfterBulkScan =>
        /\ DOMAIN gifsByTSURL = BulkKeys
        /\ DOMAIN gifsByHash = {BulkHashAt(i) : i \in FirstOfKey}
        /\ Len(heap) = Cardinality(BulkKeys)
        /\ \A i \in FirstOfKey :
            LET g == gifsByTSURL[BulkKeyAt(i)]
                same == {j \in FirstOfKey : BulkHashAt(j) = BulkHashAt(i)}
            IN  /\ heap[g] = NewGif(BulkHashAt(i), 0, 0)
                /\ heap[g].Uses = <<>>
                /\ \A j \in FirstOfKey : j # i => gifsByTSURL[BulkKeyAt(j)] # g
                /\ gifsByHash[BulkHashAt(i)] = gifsByTSURL[BulkKeyAt(Last(same))]

\* The bulk job gave key 1 the hashes A and then B, and key 2 the hash A: two
\* skeletal records with hash A, the by-checksum index refers to the second,
\* and hash B is in no index.
C14_Witness ==
    /\ AfterBulkScan
    /\ Len(sparkRead) = 3
    /\ sparkRead[1].sol[1] = [Hash |-> HashA, TS |-> TS1, URL |-> UrlA]
    /\ sparkRead[2].sol[1] = [Hash |-> HashB, TS |-> TS1, URL |-> UrlA]
    /\ sparkRead[3].sol[1] = [Hash |-> HashA, TS |-> TS2, URL |-> UrlB]
    /\ Len(heap) = 2
    /\ gifsByTSURL[BulkKeyAt(1)] = 1
    /\ gifsByTSURL[BulkKeyAt(3)] = 2
    /\ gifsByHash[HashA] = 2
    /\ HashB \notin DOMAIN gifsByHash

----------------------------------------------------------------------------
(* The uses of the aggregation pass.                                       *)

RECURSIVE UsesUpTo(_, _)
\* The Uses parsed from the lines with checksum c among the first n scanned, in
\* scan order.
UsesUpTo(c, n) ==
    IF n = 0 THEN <<>>
    ELSE IF n \in LinesWith(c)
    THEN Append(UsesUpTo(c, n - 1), parseUse(Fields(consumed[n])).use[1])
    ELSE UsesUpTo(c, n - 1)

\* C16: while the aggregation pass runs and when it has emitted, the record of a
\* checksum holds exactly the Uses parsed from the lines scanned with that
\* checksum, in scan order, and every emitted record is such a record, one per
\* checksum scanned.
C16_UsesInScanOrder ==
    ManifestRunning =>
        /\ DOMAIN seen = {c \in Checksums : LinesWith(c) # {}}
        /\ \A c \in DOMAIN seen : seen[c].Uses = UsesUpTo(c, Len(consumed))
        /\ pc = "done" =>
            /\ Len(out) = Cardinality(DOMAIN seen)
            /\ \A c \in DOMAIN seen :
                \E k \in 1..Len(out) :
                    /\ out[k].Checksum = c
                    /\ out[k].Uses = UsesUpTo(c, Len(consumed))

\* Checksum A was scanned on the first and on the third line, with different
\* uses, checksum B in between: record A is emitted with the two uses in that
\* order, record B with one.
C16_Witness ==
    /\ cmd = "manifest"
    /\ pc = "done"
    /\ Len(consumed) = 3
    /\ LinesWith(HashA) = {1, 3}
    /\ LinesWith(HashB) = {2}
    /\ Fields(consumed[1])[1] = Use1
    /\ Fields(consumed[3])[1] = Use2
    /\ \E k \in 1..Len(out) :
        /\ out[k].Checksum = HashA
        /\ Len(out[k].Uses) = 2
        /\ out[k].Uses[1].Timestamp = TS1
        /\ out[k].Uses[2].Timestamp = TS2
    /\ \E k \in 1..Len(out) : out[k].Checksum = HashB /\ Len(out[k].Uses) = 1

----------------------------------------------------------------------------
(* What the enrichment merge leaves alone.                                 *)

\* A record without the three fields the merge writes.
Frame(g) == [g EXCEPT !.Vecs = <<>>, !.MNSFW = 0, !.Mspec = <<>>]

\* Record g is base record b with vectors added and score and model id free.
MergedFrom(g, b) ==
    /\ Frame(g) = Frame(b)
    /\ Len(g.Vecs) >= Len(b.Vecs)
    /\ SubSeq(g.Vecs, 1, Len(b.Vecs)) = b.Vecs

\* C19: while the enrichment merge runs and in what it emits, a record differs
\* from its base record at most by vectors added behind the base record's and
\* by mnsfw and mspec: checksum, terms, uses, use_count, width, height and knsfw
\* are the base record's; a record named by no enrichment record equals its
\* base record.
C19_MergeFrame ==
    VecRunning =>
        /\ \A c \in DOMAIN gifs :
            /\ MergedFrom(gifs[c], BaseOf(c))
            /\ Naming(c) = {} => gifs[c] = BaseOf(c)
        /\ \A k \in 1..Len(out) :
            /\ out[k].Checksum \in BaseChecksums
            /\ MergedFrom(out[k], BaseOf(out[k].Checksum))
            /\ Naming(out[k].Checksum) = {} => out[k] = BaseOf(out[k].Checksum)

\* Base record A (terms, two uses, knsfw set, score 9) was named by an
\* enrichment record and base record B by none: A is emitted with a vector and
\* a new score but its terms, uses and knsfw, B as it was read.
C19_Witness ==
    /\ cmd = "vecmerge"
    /\ pc = "done"
    /\ Naming(HashA) # {}
    /\ Naming(HashB) = {}
    /\ Len(out) = 2
    /\ \E k \in 1..Len(out) :
        /\ out[k].Checksum = HashA
        /\ out[k].Terms = <<"t">>
        /\ out[k].UseCount = 2
        /\ Len(out[k].Uses) = 2
        /\ out[k].KNSFW = TRUE
        /\ out[k].Width = BaseOf(HashA).Width
        /\ Len(out[k].Vecs) >= 1
        /\ out[k].MNSFW # 9
    /\ \E k \in 1..Len(out) :
        /\ out[k].Checksum = HashB
        /\ out[k] = BaseOf(HashB)
        /\ out[k].UseCount = 1

----------------------------------------------------------------------------
(* The accounting of the reconciliation pass.                              *)

RECURSIVE SumUseCount(_)
SumUseCount(recs) ==
    IF recs = <<>> THEN 0 ELSE recs[1].UseCount + SumUseCount(Tail(recs))

\* C20: when the reconciliation pass has completed, the emitted records are in
\* one-to-one correspondence with the composite keys of the bulk-job output,
\* a record no line resolved to is emitted with no use, count 0, width 0 and
\* height 0, and the manifest lines are as many as the use counts emitted plus
\* the warnings logged.
C20_OnePerKeyAndAccounting ==
    (cmd = "fixmanifest" /\ pc = "done") =>
        /\ Len(out) = Cardinality(BulkKeys)
        /\ \A key \in BulkKeys :
            \E k \in 1..Len(out) :
                /\ out[k] = heap[gifsByTSURL[key]]
                /\ out[k].Checksum = BulkHash(key)
        /\ \A k1, k2 \in BulkKeys : k1 # k2 => gifsByTSURL[k1] # gifsByTSURL[k2]
        /\ \A key \in BulkKeys :
            LinesTo(gifsByTSURL[key]) = {} =>
                heap[gifsByTSURL[key]] = NewGif(BulkHash(key), 0, 0)
        /\ Len(consumed) = SumUseCount(out) + Len(warn)

\* Two keys in the bulk-job output; of two manifest lines one was resolved and
\* one found in neither index: two records are emitted, one with a use and one
\* with none and no size, and one warning was logged.
C20_Witness ==
    /\ cmd = "fixmanifest"
    /\ pc = "done"
    /\ Cardinality(BulkKeys) = 2
    /\ Len(consumed) = 2
    /\ Len(warn) = 1
    /\ Len(out) = 2
    /\ \E k \in 1..2 : out[k].UseCount = 1 /\ out[k].Width > 0
    /\ \E k \in 1..2 :
        /\ out[k].UseCount = 0
        /\ out[k].Uses = <<>>
        /\ out[k].Width = 0
        /\ out[k].Height = 0

----------------------------------------------------------------------------
(* The existence check of the uploads.                                     *)

\* An iteration of the upload loop that got as far as StatObject.
UploadStep ==
    /\ cmd \in {"upload", "uploadRaw"}
    /\ entries' # entries
    /\ entries'[Len(entries')].entry.valid

C15_Step ==
    UploadStep =>
        LET key == entries'[Len(entries')].entry.Hash
        IN  /\ store' # store => key \notin DOMAIN store
            /\ uploads' # uploads => key \notin DOMAIN store
            /\ (key \in DOMAIN store /\ pc' = "loop") =>
                /\ store' = store
                /\ prevSeen' = prevSeen + 1
                /\ uploads' = uploads

\* C15: an upload step writes an object only under a key the bucket does not
\* hold at that moment; for a key the bucket holds, a step after which the pass
\* goes on has skipped the entry, counted it as previously seen and left the
\* bucket as it was.
C15_WriteOnlyIfAbsent == [][C15_Step]_vars

----------------------------------------------------------------------------
(* Properties of the HTML attribute scraper.                               *)

\* The least element of a non-empty set of positions.
Least(S) == CHOOSE i \in S : \A j \in S : i <= j

\* The text between the first quote character at or after position from and
\* the next occurrence of that same character; none when either is missing.
QuotedFrom(s, from) ==
    LET quotes == {x \in from..Len(s) : s[x] \in {DQ, SQ}}
        closes == {y \in (Least(quotes) + 1)..Len(s) : s[y] = s[Least(quotes)]}
    IN  IF quotes = {} THEN <<>>
        ELSE IF closes = {} THEN <<>>
        ELSE <<SubSeq(s, Least(quotes) + 1, Least(closes) - 1)>>

\* C17: extractProp returns the empty string when prop does not occur in s,
\* when no quote character follows it or when the opening quote is never
\* closed, and otherwise the text between the first quote character after the
\* property name and the next occurrence of that same character.
C17_ValueBetweenQuotes ==
    (cmd = "extractProp" /\ pc = "returned") =>
        LET propIx == IndexStr(tagIn, propIn)
            value == QuotedFrom(tagIn, propIx + Len(propIn))
        IN  scrapeOut = IF propIx = 0 THEN <<>>
                        ELSE IF value = <<>> THEN <<>>
                        ELSE value[1]

RECURSIVE TagsFrom(_, _, _, _, _)
\* The tags of a fragment from position pos on: the texts between a "<" and
\* the next ">", in document order.
TagsFrom(s, pos, inTag, buff, tags) ==
    IF pos > Len(s) THEN tags
    ELSE IF s[pos] = ">" THEN TagsFrom(s, pos + 1, FALSE, <<>>, IF inTag THEN Append(tags, buff) ELSE tags)
    ELSE IF inTag THEN TagsFrom(s, pos + 1, TRUE, Append(buff, s[pos]), tags)
    ELSE TagsFrom(s, pos + 1, s[pos] = "<", <<>>, tags)

\* The name of tag t is img, in any letter case, after optional whitespace.
NamedImg(t) ==
    \E n \in 0..Len(t) :
        /\ \A i \in 1..n : t[i] \in Whitespace
        /\ n + 3 <= Len(t)
        /\ SubSeq(ToLower(t), n + 1, n + 3) = <<"i", "m", "g">>
        /\ (n + 3 = Len(t) \/ t[n + 4] \in Whitespace)

\* The positions in tag t where an attribute called name starts: the name after
\* whitespace, an equals sign and a quoted value.
AttrAt(t, name) ==
    {i \in 2..Len(t) :
        /\ t[i - 1] \in Whitespace
        /\ i + Len(name) + 1 <= Len(t)
        /\ SubSeq(t, i, i + Len(name)) = name \o <<"=">>
        /\ t[i + Len(name) + 1] \in {DQ, SQ}
        /\ QuotedFrom(t, i + Len(name) + 1) # <<>>}

\* The value of the attribute called name of tag t, empty when t has none.
AttrValue(t, name) ==
    IF AttrAt(t, name) = {} THEN <<>>
    ELSE QuotedFrom(t, Least(AttrAt(t, name)) + Len(name) + 1)[1]

\* The tags findImgs is to report: img tags with ".gif" in their text and an
\* alt attribute.
Reported(t) ==
    /\ NamedImg(t)
    /\ Contains(ToLower(t), <<".", "g", "i", "f">>)
    /\ AttrAt(t, <<"a", "l", "t">>) # {}

RECURSIVE PairsOf(_)
PairsOf(tags) ==
    IF tags = <<>> THEN <<>>
    ELSE (IF Reported(tags[1])
          THEN <<[Src |-> AttrValue(tags[1], <<"s", "r", "c">>),
                  Alt |-> AttrValue(tags[1], <<"a", "l", "t">>)]>>
          ELSE <<>>) \o PairsOf(Tail(tags))

\* C18: findImgs returns, in document order, one pair for every img tag whose
\* text contains ".gif" and an alt attribute, holding the values of the tag's
\* src and alt attributes, and no pair for anything else.
C18_OnePairPerImgTag ==
    (cmd = "findImgs" /\ pc = "returned") =>
        scrapeOut = PairsOf(TagsFrom(tagIn, 1, FALSE, <<>>, <<>>))

----------------------------------------------------------------------------
(* Properties of the deduplication of the bulk-job output.                 *)

ExtractRunning == cmd = "extractSparkUnique" /\ pc \in {"entries", "lines", "done"}

\* The positions of the shard lines carrying hash h, in processing order.
Carrying(h) == {i \in 1..Len(vread) : vread[i][2].valid /\ vread[i][2].sol[1].Hash = h}

\* The hashes occurring in the shards read so far.
ShardHashes == {h \in {HashA, HashB} : Carrying(h) # {}}

\* The first shard line carrying hash h, without its payload.
FirstCleared(h) ==
    [Hash |-> h,
     URL |-> vread[First(Carrying(h))][2].sol[1].URL,
     TS |-> vread[First(Carrying(h))][2].sol[1].TS,
     Gifb64 |-> <<>>]

\* C21: extractSparkUnique keeps, and at the end emits, exactly one line per
\* hash occurring in the shards: the first line carrying the hash in shard and
\* line order, with its url and ts and with the payload cleared.
C21_FirstLinePerHash ==
    ExtractRunning =>
        /\ DOMAIN gifs = ShardHashes
        /\ \A h \in ShardHashes : gifs[h] = FirstCleared(h)
        /\ pc = "done" =>
            /\ Len(out) = Cardinality(ShardHashes)
            /\ \A h \in ShardHashes : \E k \in 1..Len(out) : out[k] = FirstCleared(h)
            /\ \A k \in 1..Len(out) : out[k].Gifb64 = <<>>

\* Hash A came first under key 1 in the first shard and again under key 2 in
\* the second, which also held hash B: two lines are emitted, A with key 1,
\* both without payload.
C21_Witness ==
    /\ cmd = "extractSparkUnique"
    /\ pc = "done"
    /\ Len(vread) = 3
    /\ vread[1][1] # vread[2][1]
    /\ vread[1][2].sol[1] = [Hash |-> HashA, URL |-> UrlA, TS |-> TS1, Gifb64 |-> GifBytes(HashA)]
    /\ vread[2][2].sol[1] = [Hash |-> HashA, URL |-> UrlB, TS |-> TS2, Gifb64 |-> GifBytes(HashA)]
    /\ vread[3][2].sol[1].Hash = HashB
    /\ Len(out) = 2
    /\ \E k \in 1..2 : out[k] = [Hash |-> HashA, URL |-> UrlA, TS |-> TS1, Gifb64 |-> <<>>]
    /\ \E k \in 1..2 : out[k].Hash = HashB /\ out[k].Gifb64 = <<>>

----------------------------------------------------------------------------
(* The reconciliation pass on deduplicated bulk-job output.                *)

\* No two decoded bulk-job lines carry the same hash.
UniqueHashes == \A i, j \in Bulk : BulkHashAt(i) = BulkHashAt(j) => i = j

\* C22: when no two bulk-job lines read by the reconciliation pass carry the
\* same hash, no two emitted records share a checksum, whatever the manifest
\* and also when bulk-job lines share a composite key; every emitted checksum
\* is the hash of a bulk-job line.
C22_UniqueChecksums ==
    (cmd = "fixmanifest" /\ pc = "done" /\ UniqueHashes) =>
        /\ \A a, b \in 1..Len(out) : out[a].Checksum = out[b].Checksum => a = b
        /\ \A a \in 1..Len(out) : \E i \in Bulk : out[a].Checksum = BulkHashAt(i)

\* The bulk job gave key 1 the hash A and key 2 the hash B; the manifest line
\* of key 1 names checksum B and the line of key 2 names checksum A: the two
\* records emitted carry A and B, with one use each.
C22_Witness ==
    /\ cmd = "fixmanifest"
    /\ pc = "done"
    /\ UniqueHashes
    /\ Len(sparkRead) = 2
    /\ BulkKeyAt(1) # BulkKeyAt(2)
    /\ Len(consumed) = 2
    /\ KeyOf(consumed[1]) = BulkKeyAt(1)
    /\ Fields(consumed[1])[2] = BulkHashAt(2)
    /\ KeyOf(consumed[2]) = BulkKeyAt(2)
    /\ Fields(consumed[2])[2] = BulkHashAt(1)
    /\ Len(out) = 2
    /\ out[1].Checksum # out[2].Checksum
    /\ out[1].UseCount = 1
    /\ out[2].UseCount = 1

====
